---- MODULE Spec2Model ----
(***************************************************************************)
(* Model of the lead-monitoring dashboard: the two proxy endpoints         *)
(* (/api/proxy-leads and /api/proxy-leads-all), their date normalizers,    *)
(* list extractors and lead normalizers.                                   *)
(*                                                                         *)
(* JavaScript strings are sequences of one-character strings, so that      *)
(* split, trim and the ISO regular expression are computed, not assumed.   *)
(* JavaScript values are records [t, s, n]: t is the type tag, s the text  *)
(* of a string, n the value of a number.                                   *)
(***************************************************************************)
EXTENDS Integers, Sequences, FiniteSets, TLC

\* ------------------------------------------------------------ JS values

Undef == [t |-> "undef", s |-> <<>>, n |-> 0]
Null == [t |-> "null", s |-> <<>>, n |-> 0]
Str(s) == [t |-> "str", s |-> s, n |-> 0]
Num(n) == [t |-> "num", s |-> <<>>, n |-> n]
Bool(b) == [t |-> "bool", s |-> <<>>, n |-> IF b THEN 1 ELSE 0]

\* ToBoolean: what `!v` and `a || b` test.
Truthy(v) ==
    CASE v.t = "str" -> v.s # <<>>
      [] v.t = "num" -> v.n # 0
      [] v.t = "bool" -> v.n = 1
      [] OTHER -> FALSE

\* a || b
Or(a, b) == IF Truthy(a) THEN a ELSE b

\* a ?? b
Coalesce(a, b) == IF a.t \in {"undef", "null"} THEN b ELSE a

\* ------------------------------------------------------------ JS strings

Digits == {"0", "1", "2", "3", "4", "5", "6", "7", "8", "9"}

UndefinedText == <<"u", "n", "d", "e", "f", "i", "n", "e", "d">>

\* What a template literal `${v}` prints for a destructured piece.
Template(v) == IF v.t = "undef" THEN UndefinedText ELSE v.s

RECURSIVE SplitAcc(_, _, _, _)
SplitAcc(s, c, cur, acc) ==
    IF s = <<>> THEN Append(acc, cur)
    ELSE IF Head(s) = c THEN SplitAcc(Tail(s), c, <<>>, Append(acc, cur))
    ELSE SplitAcc(Tail(s), c, Append(cur, Head(s)), acc)

\* String.prototype.split with a one-character separator.
Split(s, c) == SplitAcc(s, c, <<>>, <<>>)

\* parts[i] of an array of strings (1-based here): undefined past the end.
Nth(parts, i) == IF i <= Len(parts) THEN Str(parts[i]) ELSE Undef

RECURSIVE TrimStart(_)
TrimStart(s) == IF s # <<>> /\ Head(s) = " " THEN TrimStart(Tail(s)) ELSE s

RECURSIVE TrimEnd(_)
TrimEnd(s) ==
    IF s # <<>> /\ s[Len(s)] = " " THEN TrimEnd(SubSeq(s, 1, Len(s) - 1)) ELSE s

\* String.prototype.trim
Trim(s) == TrimEnd(TrimStart(s))

\* /^\d{4}-\d{2}-\d{2}T/.test(s)
IsoRegex(s) ==
    /\ Len(s) >= 11
    /\ \A i \in {1, 2, 3, 4, 6, 7, 9, 10} : s[i] \in Digits
    /\ s[5] = "-" /\ s[8] = "-" /\ s[11] = "T"

\* ------------------------------------------------------------ Date Normalizer

\* parseDate reading the date as month/day/year.
parseDateMonthFirst(input) ==
    IF ~Truthy(input) THEN Null
    ELSE LET trimmed == Trim(input.s)
             parts == Split(trimmed, " ")
             datePart == Or(Nth(parts, 1), Str(<<>>))
             timePart == Or(Nth(parts, 2), Str(<<"0", "0", ":", "0", "0">>))
             dmY == Split(datePart.s, "/")
             hm == Split(timePart.s, ":")
             hh == Or(Nth(hm, 1), Str(<<"0", "0">>))
             mm == Or(Nth(hm, 2), Str(<<"0", "0">>))
         IN  IF trimmed = <<>> THEN Null
             ELSE IF IsoRegex(trimmed) THEN Str(trimmed)
             ELSE IF Len(dmY) = 3
                  THEN Str(dmY[3] \o <<"-">> \o dmY[1] \o <<"-">> \o dmY[2]
                           \o <<"T">> \o hh.s \o <<":">> \o mm.s
                           \o <<":", "0", "0">>)
                  ELSE Null

\* parseDate of /api/proxy-leads-all; its argument is always a string
\* (the result of getStr).
parseDate(input) ==
    IF ~Truthy(input) THEN Null
    ELSE LET trimmed == Trim(input.s)
             parts == Split(trimmed, " ")
             datePart == Or(Nth(parts, 1), Str(<<>>))
             timePart == Or(Nth(parts, 2), Str(<<"0", "0", ":", "0", "0">>))
             dmY == Split(datePart.s, "/")
             hm == Split(timePart.s, ":")
             hh == Or(Nth(hm, 1), Str(<<"0", "0">>))
             mm == Or(Nth(hm, 2), Str(<<"0", "0">>))
         IN  IF trimmed = <<>> THEN Null
             ELSE IF IsoRegex(trimmed) THEN Str(trimmed)
             ELSE IF Len(dmY) = 3
                  THEN Str(dmY[3] \o <<"-">> \o dmY[2] \o <<"-">> \o dmY[1]
                           \o <<"T">> \o hh.s \o <<":">> \o mm.s
                           \o <<":", "0", "0">>)
                  ELSE Null

\* The body shared by the two copies of parseImoviewDate.  The argument is
\* any JS value: a falsy one gives null, a truthy non-string has no split
\* method, so the call throws inside the try and the catch returns null.
ImoviewDate(dateStr) ==
    IF ~Truthy(dateStr) THEN Null
    ELSE IF dateStr.t # "str" THEN Null
    ELSE LET parts == Split(dateStr.s, " ")
             datePart == Nth(parts, 1)
             timePart == Nth(parts, 2)
             dmy == Split(datePart.s, "/")
             hm == IF Truthy(timePart) THEN Split(timePart.s, ":")
                   ELSE << <<"0", "0">>, <<"0", "0">> >>
         IN  IF ~Truthy(datePart) THEN Null
             ELSE Str(Template(Nth(dmy, 3)) \o <<"-">> \o Template(Nth(dmy, 2))
                      \o <<"-">> \o Template(Nth(dmy, 1)) \o <<"T">>
                      \o Template(Nth(hm, 1)) \o <<":">> \o Template(Nth(hm, 2))
                      \o <<":", "0", "0">>)

\* parseImoviewDate of /api/proxy-leads
parseImoviewDate(dateStr) == ImoviewDate(dateStr)

\* parseImoviewDate of the reports page
ReportsParseImoviewDate(dateStr) == ImoviewDate(dateStr)

\* ------------------------------------------------------------ Date (the JS built-in)

DigitVal(c) ==
    CASE c = "0" -> 0 [] c = "1" -> 1 [] c = "2" -> 2 [] c = "3" -> 3
      [] c = "4" -> 4 [] c = "5" -> 5 [] c = "6" -> 6 [] c = "7" -> 7
      [] c = "8" -> 8 [] c = "9" -> 9

AllDigits(s) == s # <<>> /\ \A i \in 1..Len(s) : s[i] \in Digits

RECURSIVE ToNat(_)
ToNat(s) == IF s = <<>> THEN 0 ELSE 10 * ToNat(SubSeq(s, 1, Len(s) - 1)) + DigitVal(s[Len(s)])

\* The text of a date-time with the fraction and the zone designator of
\* toISOString ("...:ss.sssZ") removed.
StripZone(s) ==
    IF /\ Len(s) >= 5
       /\ s[Len(s)] = "Z"
       /\ s[Len(s) - 4] = "."
       /\ AllDigits(SubSeq(s, Len(s) - 3, Len(s) - 1))
    THEN SubSeq(s, 1, Len(s) - 5)
    ELSE s

\* Whether the text is "YYYY-MM-DDTHH:mm:ss" with every field in range.
IsoShaped(s) ==
    /\ Len(s) = 19
    /\ \A i \in {1, 2, 3, 4, 6, 7, 9, 10, 12, 13, 15, 16, 18, 19} : s[i] \in Digits
    /\ s[5] = "-" /\ s[8] = "-" /\ s[11] = "T" /\ s[14] = ":" /\ s[17] = ":"

\* The number written by the two digits at i.
Two(s, i) == 10 * DigitVal(s[i]) + DigitVal(s[i + 1])

\* Days from 1970-01-01 to the civil date y-m-d.
DaysFromCivil(y, m, d) ==
    LET yy == IF m <= 2 THEN y - 1 ELSE y
        era == yy \div 400
        yoe == yy - era * 400
        mp == IF m > 2 THEN m - 3 ELSE m + 9
        doy == (153 * mp + 2) \div 5 + d - 1
        doe == yoe * 365 + yoe \div 4 - yoe \div 100 + doy
    IN  era * 146097 + doe - 719468

NaN == -1

\* new Date(s).getTime(), in seconds, for the ISO-8601 date-time forms
\* "YYYY-MM-DDTHH:mm:ss" and "YYYY-MM-DDTHH:mm:ss.sssZ"; NaN for every other
\* text.  The local time zone of the model is UTC.
GetTime(s) ==
    LET b == StripZone(s)
    IN  IF /\ IsoShaped(b)
           /\ Two(b, 6) \in 1..12 /\ Two(b, 9) \in 1..31
           /\ Two(b, 12) \in 0..23 /\ Two(b, 15) \in 0..59 /\ Two(b, 18) \in 0..59
        THEN DaysFromCivil(100 * Two(b, 1) + Two(b, 3), Two(b, 6), Two(b, 9)) * 86400
             + Two(b, 12) * 3600 + Two(b, 15) * 60 + Two(b, 18)
        ELSE NaN

\* Whether the text is "Y-M-DTh:m:s" with fields in range, where month, day,
\* hour and minute may have one digit ("2024-2-1T9:05:00").
LooseStamp(s) ==
    LET dt == Split(StripZone(s), "T")
        ymd == IF Len(dt) = 2 THEN Split(dt[1], "-") ELSE <<>>
        hms == IF Len(dt) = 2 THEN Split(dt[2], ":") ELSE <<>>
    IN  /\ Len(ymd) = 3 /\ Len(hms) = 3
        /\ \A i \in 1..3 : AllDigits(ymd[i]) /\ AllDigits(hms[i])
        /\ Len(ymd[1]) = 4
        /\ \A i \in 2..3 : Len(ymd[i]) \in 1..2
        /\ \A i \in 1..3 : Len(hms[i]) \in 1..2
        /\ ToNat(ymd[2]) \in 1..12 /\ ToNat(ymd[3]) \in 1..31
        /\ ToNat(hms[1]) \in 0..23 /\ ToNat(hms[2]) \in 0..59
        /\ ToNat(hms[3]) \in 0..59

\* A text that Date parses to a real instant.  Whether Date accepts fields
\* of one digit depends on the engine: they are counted as valid here, so
\* that a text called invalid is invalid in every engine.
ValidTimestamp(s) == GetTime(s) # NaN \/ LooseStamp(s)

\* ------------------------------------------------------------ state

VARIABLES
    endpoint,   \* the proxy endpoint the request is for
    apiKey,     \* process.env.IMOVIEW_API_KEY
    now,        \* new Date().toISOString() at normalization
    pc,         \* position of the GET handler
    calls,      \* the upstream calls of the request: state and result of each
    requests,   \* the upstream HTTP requests issued so far, in order
    response,   \* the HTTP response of the handler
    dateIn,     \* Date Normalizer: the input under test
    dateOut,    \* Date Normalizer: the result of each normalizer
    exIn,       \* List Extractor: the payload under test
    exOut,      \* List Extractor: the result of each extractor
    normIn,     \* Lead Normalizer: the upstream record under test
    normOut,    \* Lead Normalizer: the lead built by each normalizer
    slaIn,      \* SLA: the entry, the first interaction and the clock under test
    slaOut,     \* SLA: the result of getSLAInfo of each page
    sortIn,     \* sort: the upstream records under test
    sortOut,    \* sort: the response each endpoint builds from them
    page,       \* pages: the page the browser shows
    upstream,   \* pages: the records the CRM holds
    dash,       \* pages: the state of the Dashboard component
    rep,        \* pages: the state of the ReportsPage component
    fetchLog,   \* pages: the fetches of a proxy endpoint issued so far
    lastEvent,  \* pages: the event whose handler ran last
    csvIn,      \* CSV export: the leads of the Reports page and the locale
    csvOut,     \* CSV export: the file handleExportCSV produced
    pgOut,      \* page normalization: the lead each page builds from normOut's
    teamIn,     \* teams: the endpoint and the leads it returned
    teamOut     \* teams: what each page derives from the leads

vars == <<endpoint, apiKey, now, pc, calls, requests, response,
          dateIn, dateOut, exIn, exOut, normIn, normOut, slaIn, slaOut,
          sortIn, sortOut, page, upstream, dash, rep, fetchLog, lastEvent,
          csvIn, csvOut, pgOut, teamIn, teamOut>>

requestVars == <<endpoint, apiKey, now, pc, calls, requests, response>>
dateVars == <<dateIn, dateOut>>
extractVars == <<exIn, exOut>>
normVars == <<normIn, normOut>>
slaVars == <<slaIn, slaOut>>
sortVars == <<sortIn, sortOut>>
pageVars == <<page, upstream, dash, rep, fetchLog, lastEvent>>
csvVars == <<csvIn, csvOut>>
pageNormVars == <<pgOut>>
teamVars == <<teamIn, teamOut>>
uiVars == <<slaVars, sortVars, pageVars, csvVars, pageNormVars, teamVars>>

\* The value of a result that has not been computed yet.
Pending == [t |-> "pending", s |-> <<>>, n |-> 0]

\* ------------------------------------------------------------ Date Normalizer inputs

Days == {<<"2", "5">>, <<"0", "1">>, <<"2", "8">>}
Months == {<<"1", "2">>, <<"0", "2">>}
Years == {<<"2", "0", "2", "4">>, <<"1", "9", "9", "9">>}
Hours == {<<"1", "4">>, <<"0", "0">>, <<"2", "3">>}
Minutes == {<<"3", "0">>, <<"0", "0">>, <<"5", "9">>}

\* "DD/MM/YYYY"
DateText(d, m, y) == d \o <<"/">> \o m \o <<"/">> \o y
\* "DD/MM/YYYY HH:mm"
DateTimeText(d, m, y, hh, mi) == DateText(d, m, y) \o <<" ">> \o hh \o <<":">> \o mi
\* "YYYY-MM-DDTHH:mm:00"
IsoText(d, m, y, hh, mi) ==
    y \o <<"-">> \o m \o <<"-">> \o d \o <<"T">> \o hh \o <<":">> \o mi \o <<":", "0", "0">>

DateOnlyInputs == {DateText(d, m, y) : d \in Days, m \in Months, y \in Years}
DateTimeInputs ==
    {DateTimeText(d, m, y, hh, mi) :
        d \in Days, m \in Months, y \in Years, hh \in Hours, mi \in Minutes}

IsoInputs ==
    {IsoText(d, m, y, hh, mi) : d \in Days, m \in Months, y \in Years,
                                hh \in {<<"1", "4">>}, mi \in {<<"3", "0">>}}
    \cup {IsoText(<<"2", "5">>, <<"1", "2">>, <<"2", "0", "2", "4">>, <<"1", "4">>, <<"3", "0">>)
             \o <<".", "0", "0", "0", "Z">>,
          <<"2", "0", "2", "4", "-", "1", "2", "-", "2", "5", "T">>,
          <<"2", "0", "2", "4", "-", "1", "2", "-", "2", "5", "T", "x", "x">>}

GarbageInputs ==
    {<<"a", "b", "c">>,
     <<"a", "/", "b", "/", "c">>,
     <<"a", "/", "b">>,
     <<"2", "5", "/", "1", "2">>,
     <<"a", "b", "c", " ", "d", "e", "f">>,
     <<"2", "5", "-", "1", "2", "-", "2", "0", "2", "4">>,
     <<"1", "/", "2", "/", "2", "0", "2", "4">>,
     <<"1", "/", "2", "/", "2", "0", "2", "4", " ", "9", ":", "0", "5">>,
     DateText(<<"2", "5">>, <<"1", "2">>, <<"2", "0", "2", "4">>) \o <<"/", "7">>,
     DateText(<<"2", "5">>, <<"1", "2">>, <<"2", "0", "2", "4">>) \o <<" ", "1", "4">>,
     DateText(<<"2", "5">>, <<"1", "2">>, <<"2", "0", "2", "4">>) \o <<" ", "x", "y", ":", "z">>,
     DateText(<<"2", "5">>, <<"1", "2">>, <<"2", "0", "2", "4">>) \o <<" ", " ", "1", "4", ":", "3", "0">>,
     <<" ">> \o DateText(<<"2", "5">>, <<"1", "2">>, <<"2", "0", "2", "4">>)}

BlankInputs == {<<>>, <<" ">>, <<" ", " ">>}

DateInputs ==
    {Str(s) : s \in DateOnlyInputs \cup DateTimeInputs \cup IsoInputs
                    \cup GarbageInputs \cup BlankInputs}
    \cup {Undef, Null, Num(0), Num(20241225)}

Normalizers == {"parseDate", "parseImoviewDate", "reportsParseImoviewDate"}

\* ------------------------------------------------------------ Date Normalizer under test

InitDate ==
    /\ dateIn \in DateInputs
    /\ dateOut = [f \in Normalizers |-> Pending]

\* parseDate is only ever called on the result of getStr: a string.
ApplyParseDate ==
    /\ dateIn.t = "str"
    /\ dateOut["parseDate"] = Pending
    /\ dateOut' = [dateOut EXCEPT !["parseDate"] = parseDate(dateIn)]
    /\ UNCHANGED dateIn

ApplyParseImoviewDate ==
    /\ dateOut["parseImoviewDate"] = Pending
    /\ dateOut' = [dateOut EXCEPT !["parseImoviewDate"] = parseImoviewDate(dateIn)]
    /\ UNCHANGED dateIn

ApplyReportsParseImoviewDate ==
    /\ dateOut["reportsParseImoviewDate"] = Pending
    /\ dateOut' = [dateOut EXCEPT !["reportsParseImoviewDate"] =
                                      ReportsParseImoviewDate(dateIn)]
    /\ UNCHANGED dateIn


\* ------------------------------------------------------------ upstream records

TopFields ==
    {"codigo", "id", "nome", "lead_nome", "telefone1", "celular", "telefone", "phone",
     "email", "situacao", "status", "unidadenome", "time", "datahoraentradalead",
     "data_entrada", "data_criacao", "datahoraultimainteracao", "primeira_interacao",
     "midia", "origem"}

LeadFields == {"nome", "telefone1", "celular", "email"}

\* The nested `lead` of a record: absent, or an object.
NoLead == [kind |-> "undef", f |-> [k \in LeadFields |-> Undef]]
LeadObj(f) == [kind |-> "obj", f |-> f]

\* An element of an upstream list: an object with its fields, or a JSON value
\* that is not an object (null, a number).
EmptyItem == [kind |-> "obj", f |-> [k \in TopFields |-> Undef], lead |-> NoLead]
NullItem == [kind |-> "null", f |-> [k \in TopFields |-> Undef], lead |-> NoLead]
NumberItem == [kind |-> "num", f |-> [k \in TopFields |-> Undef], lead |-> NoLead]

\* item[key] / item.key: a property read of a number gives undefined.  (A
\* property read of null throws: see Throws.)
Field(item, key) == IF item.kind = "obj" THEN item.f[key] ELSE Undef

\* item.lead?.key of /api/proxy-leads, and (item['lead'] || {})[key] of
\* /api/proxy-leads-all.
LeadField(item, key) ==
    IF item.kind = "obj" /\ item.lead.kind = "obj" THEN item.lead.f[key] ELSE Undef

\* Reading a property of null throws a TypeError.
Throws(item) == item.kind = "null"

\* ------------------------------------------------------------ List Extractor

WrapKeys == {"lista", "leads", "atendimentos", "items", "resultado", "data"}

\* A value stored under a wrapper key: absent, an array, or something else.
Absent == [present |-> FALSE, isArray |-> FALSE, list |-> <<>>]
ArrayOf(list) == [present |-> TRUE, isArray |-> TRUE, list |-> list]
NotArray == [present |-> TRUE, isArray |-> FALSE, list |-> <<>>]

\* A parsed upstream body: an array, an object with wrapper keys, a falsy
\* value (null, 0, "", false) or another primitive.
ArrayPayload(list) == [kind |-> "array", list |-> list, w |-> [k \in WrapKeys |-> Absent]]
ObjPayload(w) == [kind |-> "obj", list |-> <<>>, w |-> w]
FalsyPayload == [kind |-> "falsy", list |-> <<>>, w |-> [k \in WrapKeys |-> Absent]]
PrimPayload == [kind |-> "prim", list |-> <<>>, w |-> [k \in WrapKeys |-> Absent]]
Wrapped(key, list) == ObjPayload([k \in WrapKeys |-> IF k = key THEN ArrayOf(list) ELSE Absent])

\* `for (const key of candidates) if (Array.isArray(obj[key])) return obj[key]`
RECURSIVE FirstArray(_, _)
FirstArray(data, candidates) ==
    IF candidates = <<>> THEN <<>>
    ELSE IF data.w[Head(candidates)].isArray THEN data.w[Head(candidates)].list
    ELSE FirstArray(data, Tail(candidates))

\* extractList of /api/proxy-leads-all
extractListAll(data) ==
    IF data.kind = "falsy" THEN <<>>
    ELSE IF data.kind = "array" THEN data.list
    ELSE IF data.kind = "prim" THEN <<>>
    ELSE FirstArray(data, <<"lista", "leads", "atendimentos", "items", "resultado", "data">>)

\* extractList of /api/proxy-leads
extractList(data) ==
    IF data.kind = "falsy" THEN <<>>
    ELSE IF data.kind = "array" THEN data.list
    ELSE IF data.kind = "prim" THEN <<>>
    ELSE IF data.w["lista"].isArray THEN data.w["lista"].list
    ELSE IF data.w["atendimentos"].isArray THEN data.w["atendimentos"].list
    ELSE IF data.w["resultado"].isArray THEN data.w["resultado"].list
    ELSE <<>>


\* ------------------------------------------------------------ List Extractor under test

\* The list stored under a wrapper key in the payloads under test: one
\* record whose codigo is the key, so the lists of two keys differ.
MarkList(key) == << [EmptyItem EXCEPT !.f["codigo"] = Str(<<key>>)] >>

SlotShapes == {"absent", "notArray", "array", "emptyArray"}

SlotOf(key, shape) ==
    CASE shape = "absent" -> Absent
      [] shape = "notArray" -> NotArray
      [] shape = "array" -> ArrayOf(MarkList(key))
      [] shape = "emptyArray" -> ArrayOf(<<>>)

ExtractPayloads ==
    {ObjPayload([k \in WrapKeys |-> SlotOf(k, g[k])]) : g \in [WrapKeys -> SlotShapes]}
    \cup {ArrayPayload(<<>>), ArrayPayload(MarkList("top")), FalsyPayload, PrimPayload}

Extractors == {"proxy-leads", "proxy-leads-all"}

NotExtracted == [done |-> FALSE, list |-> <<>>]
Extracted(list) == [done |-> TRUE, list |-> list]

InitExtract ==
    /\ exIn \in ExtractPayloads
    /\ exOut = [e \in Extractors |-> NotExtracted]

ApplyExtractList ==
    /\ ~exOut["proxy-leads"].done
    /\ exOut' = [exOut EXCEPT !["proxy-leads"] = Extracted(extractList(exIn))]
    /\ UNCHANGED exIn

ApplyExtractListAll ==
    /\ ~exOut["proxy-leads-all"].done
    /\ exOut' = [exOut EXCEPT !["proxy-leads-all"] = Extracted(extractListAll(exIn))]
    /\ UNCHANGED exIn

\* ------------------------------------------------------------ Lead Normalizer

DigitChar(d) ==
    CASE d = 0 -> "0" [] d = 1 -> "1" [] d = 2 -> "2" [] d = 3 -> "3" [] d = 4 -> "4"
      [] d = 5 -> "5" [] d = 6 -> "6" [] d = 7 -> "7" [] d = 8 -> "8" [] d = 9 -> "9"

\* Number.prototype.toString of a natural number
RECURSIVE NumToStr(_)
NumToStr(n) == IF n < 10 THEN <<DigitChar(n)>> ELSE NumToStr(n \div 10) \o <<DigitChar(n % 10)>>

\* v?.toString()
ToStringOpt(v) ==
    CASE v.t \in {"undef", "null"} -> Undef
      [] v.t = "num" -> Str(NumToStr(v.n))
      [] OTHER -> v

getStr(v) == IF v.t = "str" THEN v ELSE Str(<<>>)

getNumOrStr(v) == IF v.t \in {"str", "num"} THEN v ELSE Undef

SemNome == Str(<<"S", "e", "m", " ", "N", "o", "m", "e">>)
Novo == Str(<<"N", "o", "v", "o">>)
Geral == Str(<<"G", "e", "r", "a", "l">>)
Site == Str(<<"S", "i", "t", "e">>)
EmptyStr == Str(<<>>)

\* A lead of a response.  raw is the _raw of /api/proxy-leads (NullItem
\* where the endpoint sets none); tem_atendimento is undefined there.
Lead(id, nome, telefone, email, status, time, entrada, primeira, origem, tem, raw) ==
    [id |-> id, nome |-> nome, telefone |-> telefone, email |-> email, status |-> status,
     time |-> time, data_entrada |-> entrada, primeira_interacao |-> primeira,
     origem |-> origem, tem_atendimento |-> tem, raw |-> raw]

\* mappedLead with `??` in place of `||` for time: an empty unidadenome is
\* kept.
mappedLeadNullishTime(item, rnd, clock) ==
    Lead(Or(ToStringOpt(Field(item, "codigo")), Str(rnd)),
         Or(LeadField(item, "nome"), SemNome),
         Or(LeadField(item, "telefone1"), Or(LeadField(item, "celular"), EmptyStr)),
         Or(LeadField(item, "email"), EmptyStr),
         Or(Field(item, "situacao"), Novo),
         Coalesce(Field(item, "unidadenome"), Geral),
         Or(parseImoviewDate(Field(item, "datahoraentradalead")), Str(clock)),
         Or(parseImoviewDate(Field(item, "datahoraultimainteracao")), Null),
         Or(Field(item, "midia"), Site),
         Undef,
         item)

\* The element function of mappedLeads of /api/proxy-leads; rnd is
\* Math.random().toString(), clock is new Date().toISOString().
mappedLead(item, rnd, clock) ==
    Lead(Or(ToStringOpt(Field(item, "codigo")), Str(rnd)),
         Or(LeadField(item, "nome"), SemNome),
         Or(LeadField(item, "telefone1"), Or(LeadField(item, "celular"), EmptyStr)),
         Or(LeadField(item, "email"), EmptyStr),
         Or(Field(item, "situacao"), Novo),
         Or(Field(item, "unidadenome"), Geral),
         Or(parseImoviewDate(Field(item, "datahoraentradalead")), Str(clock)),
         Or(parseImoviewDate(Field(item, "datahoraultimainteracao")), Null),
         Or(Field(item, "midia"), Site),
         Undef,
         item)

\* The phone of mapAtendimento
telefoneAtendimento(item) ==
    Or(getStr(LeadField(item, "telefone1")),
       Or(getStr(LeadField(item, "celular")),
          Or(getStr(Field(item, "telefone")), EmptyStr)))

\* The phone of mapBruto
telefoneBruto(item) ==
    Or(getStr(Field(item, "telefone1")),
       Or(getStr(Field(item, "celular")),
          Or(getStr(Field(item, "telefone")),
             Or(getStr(Field(item, "phone")), EmptyStr))))

\* mapAtendimento with `??` in place of `||` for status, time and origem
\* (as the Dashboard's own normalization has it): an empty upstream string
\* is kept.
mapAtendimentoNullish(item, rnd, clock) ==
    Lead(Coalesce(getNumOrStr(Field(item, "codigo")), Str(rnd)),
         Or(getStr(LeadField(item, "nome")), Or(getStr(Field(item, "nome")), SemNome)),
         telefoneAtendimento(item),
         Or(getStr(LeadField(item, "email")), Or(getStr(Field(item, "email")), EmptyStr)),
         Coalesce(getStr(Field(item, "situacao")), Novo),
         Coalesce(getStr(Field(item, "unidadenome")), Geral),
         Or(parseDate(getStr(Field(item, "datahoraentradalead"))),
            Or(parseDate(getStr(Field(item, "data_entrada"))), Str(clock))),
         Or(Or(parseDate(getStr(Field(item, "datahoraultimainteracao"))),
               Or(parseDate(getStr(Field(item, "primeira_interacao"))), Null)),
            Undef),
         Coalesce(getStr(Field(item, "midia")), Site),
         Bool(TRUE),
         NullItem)

\* mapAtendimento of /api/proxy-leads-all
mapAtendimento(item, rnd, clock) ==
    Lead(Coalesce(getNumOrStr(Field(item, "codigo")), Str(rnd)),
         Or(getStr(LeadField(item, "nome")), Or(getStr(Field(item, "nome")), SemNome)),
         telefoneAtendimento(item),
         Or(getStr(LeadField(item, "email")), Or(getStr(Field(item, "email")), EmptyStr)),
         Or(getStr(Field(item, "situacao")), Novo),
         Or(getStr(Field(item, "unidadenome")), Geral),
         Or(parseDate(getStr(Field(item, "datahoraentradalead"))),
            Or(parseDate(getStr(Field(item, "data_entrada"))), Str(clock))),
         Or(Or(parseDate(getStr(Field(item, "datahoraultimainteracao"))),
               Or(parseDate(getStr(Field(item, "primeira_interacao"))), Null)),
            Undef),
         Or(getStr(Field(item, "midia")), Site),
         Bool(TRUE),
         NullItem)

\* mapBruto of /api/proxy-leads-all
mapBruto(item, rnd, clock) ==
    Lead(Coalesce(getNumOrStr(Field(item, "id")),
                  Coalesce(getNumOrStr(Field(item, "codigo")), Str(rnd))),
         Or(getStr(Field(item, "nome")), Or(getStr(Field(item, "lead_nome")), SemNome)),
         telefoneBruto(item),
         Or(getStr(Field(item, "email")), EmptyStr),
         Or(getStr(Field(item, "status")), Novo),
         Or(getStr(Field(item, "unidadenome")), Or(getStr(Field(item, "time")), Geral)),
         Or(parseDate(getStr(Field(item, "data_criacao"))),
            Or(parseDate(getStr(Field(item, "datahoraentradalead"))), Str(clock))),
         Undef,
         Or(getStr(Field(item, "origem")), Site),
         Bool(FALSE),
         NullItem)


\* Math.random().toString()
RandomTexts == {<<"0", ".", "3">>, <<"0", ".", "8">>}

\* new Date().toISOString()
NowValues == {<<"2", "0", "2", "5", "-", "0", "1", "-", "0", "1", "T", "1", "2", ":", "0", "0", ":", "0", "0", ".", "0", "0", "0", "Z">>}


\* The random texts drawn while n elements are mapped: one for each element
\* whose mapping evaluates Math.random(), given by draws[i]; "" stands for
\* no draw.
RandomDraws(draws) ==
    {rnd \in [DOMAIN draws -> RandomTexts \cup {<<>>}] :
        \A i \in DOMAIN draws : (rnd[i] # <<>>) <=> draws[i]}

\* rawLeads.map(...) of /api/proxy-leads: elements 1..n mapped, in order;
\* rnd[i] is the random text drawn for element i.
RECURSIVE MapPrefix(_, _, _, _)
MapPrefix(rawLeads, rnd, clock, n) ==
    IF n = 0 THEN <<>>
    ELSE Append(MapPrefix(rawLeads, rnd, clock, n - 1),
                mappedLead(rawLeads[n], rnd[n], clock))

mappedLeads(rawLeads, rnd, clock) == MapPrefix(rawLeads, rnd, clock, Len(rawLeads))

\* [...leadsBrutos, ...atendimentos] of /api/proxy-leads-all: elements 1..n
\* of brutos followed by ats, each mapped by its own normalizer.
RECURSIVE AllPrefix(_, _, _, _, _)
AllPrefix(brutos, ats, rnd, clock, n) ==
    IF n = 0 THEN <<>>
    ELSE Append(AllPrefix(brutos, ats, rnd, clock, n - 1),
                IF n <= Len(brutos) THEN mapBruto(brutos[n], rnd[n], clock)
                ELSE mapAtendimento(ats[n - Len(brutos)], rnd[n], clock))

allLeads(brutos, ats, rnd, clock) ==
    AllPrefix(brutos, ats, rnd, clock, Len(brutos) + Len(ats))

\* ------------------------------------------------------------ Lead Normalizer under test

PhoneSources == {"lead.telefone1", "lead.celular", "telefone1", "celular", "telefone", "phone"}

\* What a phone field of the records under test holds: nothing, the empty
\* string, or a number of its own (the digit tells the fields apart).
PhoneShapes == {"absent", "empty", "set"}

PhoneDigit(src) ==
    CASE src = "lead.telefone1" -> "1" [] src = "lead.celular" -> "2"
      [] src = "telefone1" -> "3" [] src = "celular" -> "4"
      [] src = "telefone" -> "5" [] src = "phone" -> "6"

PhoneValue(src, shape) ==
    CASE shape = "absent" -> Undef
      [] shape = "empty" -> Str(<<>>)
      [] shape = "set" -> Str(<<"1", "1", "9", PhoneDigit(src)>>)

\* The record with codigo 30, id 31 and the phone fields as g says.
PhoneItem(g) ==
    [EmptyItem EXCEPT
        !.f["codigo"] = Num(30),
        !.f["id"] = Num(31),
        !.f["telefone1"] = PhoneValue("telefone1", g["telefone1"]),
        !.f["celular"] = PhoneValue("celular", g["celular"]),
        !.f["telefone"] = PhoneValue("telefone", g["telefone"]),
        !.f["phone"] = PhoneValue("phone", g["phone"]),
        !.lead = LeadObj([nome |-> Undef, email |-> Undef,
                          telefone1 |-> PhoneValue("lead.telefone1", g["lead.telefone1"]),
                          celular |-> PhoneValue("lead.celular", g["lead.celular"])])]

PhoneItems == {PhoneItem(g) : g \in [PhoneSources -> PhoneShapes]}

\* The fields the normalizers read for status, time and origem.
DefaultSources == {"situacao", "status", "unidadenome", "time", "midia", "origem"}

\* What such a field holds: nothing, JSON null, the empty string, or a text
\* of its own (the letter tells the fields apart).
DefaultShapes == {"absent", "null", "empty", "set"}

DefaultLetter(src) ==
    CASE src = "situacao" -> "a" [] src = "status" -> "b" [] src = "unidadenome" -> "c"
      [] src = "time" -> "d" [] src = "midia" -> "e" [] src = "origem" -> "f"

DefaultValue(src, shape) ==
    CASE shape = "absent" -> Undef
      [] shape = "null" -> Null
      [] shape = "empty" -> Str(<<>>)
      [] shape = "set" -> Str(<<"v", DefaultLetter(src)>>)

\* The record with codigo 40, id 41 and the fields of DefaultSources as g says.
DefaultItem(g) ==
    [kind |-> "obj",
     f |-> [k \in TopFields |->
              IF k \in DefaultSources THEN DefaultValue(k, g[k])
              ELSE IF k = "codigo" THEN Num(40)
              ELSE IF k = "id" THEN Num(41)
              ELSE Undef],
     lead |-> NoLead]

DefaultItems == {DefaultItem(g) : g \in [DefaultSources -> DefaultShapes]}

\* What codigo and id of a record hold: nothing, JSON null, the empty
\* string, a text, or a number.
IdValues == {Undef, Null, Str(<<>>), Str(<<"7">>), Num(0), Num(5)}

IdItem(codigo, id) == [EmptyItem EXCEPT !.f["codigo"] = codigo, !.f["id"] = id]

IdItems == {IdItem(c, i) : c \in IdValues, i \in IdValues}

\* A record with both dates.
InteractedItem ==
    [EmptyItem EXCEPT
        !.f["codigo"] = Num(42),
        !.f["datahoraentradalead"] = Str(<<"2", "5", "/", "1", "2", "/", "2", "0", "2", "4", " ", "0", "9", ":", "0", "0">>),
        !.f["datahoraultimainteracao"] = Str(<<"2", "5", "/", "1", "2", "/", "2", "0", "2", "4", " ", "0", "9", ":", "3", "0">>)]

NormItems ==
    PhoneItems \cup DefaultItems \cup IdItems \cup {EmptyItem, NumberItem, InteractedItem}

LeadNormalizers == {"mappedLeads", "mapAtendimento", "mapBruto"}

NotMapped == [done |-> FALSE,
              lead |-> Lead(Undef, Undef, Undef, Undef, Undef, Undef, Undef, Undef, Undef,
                            Undef, NullItem)]
Mapped(lead) == [done |-> TRUE, lead |-> lead]

InitNorm ==
    /\ normIn \in NormItems
    /\ normOut = [f \in LeadNormalizers |-> NotMapped]

ApplyMappedLead ==
    /\ ~normOut["mappedLeads"].done
    /\ \E rnd \in RandomTexts :
          normOut' = [normOut EXCEPT !["mappedLeads"] = Mapped(mappedLead(normIn, rnd, now))]
    /\ UNCHANGED normIn

ApplyMapAtendimento ==
    /\ ~normOut["mapAtendimento"].done
    /\ \E rnd \in RandomTexts :
          normOut' = [normOut EXCEPT !["mapAtendimento"] =
                                        Mapped(mapAtendimento(normIn, rnd, now))]
    /\ UNCHANGED normIn

ApplyMapBruto ==
    /\ ~normOut["mapBruto"].done
    /\ \E rnd \in RandomTexts :
          normOut' = [normOut EXCEPT !["mapBruto"] = Mapped(mapBruto(normIn, rnd, now))]
    /\ UNCHANGED normIn

\* ------------------------------------------------------------ sort

\* new Date(x.data_entrada).getTime() of every element of the list.
RECURSIVE EntryTimes(_)
EntryTimes(list) ==
    IF list = <<>> THEN <<>>
    ELSE <<GetTime(Head(list).data_entrada.s)>> \o EntryTimes(Tail(list))

\* The comparator of both endpoints, on the times of a and b:
\*   new Date(b.data_entrada).getTime() - new Date(a.data_entrada).getTime()
\* A NaN result counts as +0 (Array.prototype.sort, SortCompare).
Cmp(ta, tb) == IF ta = NaN \/ tb = NaN THEN 0 ELSE tb - ta

\* Whether the comparator is a consistent one over elements with these
\* times (ECMA-262, Array.prototype.sort): "equal" is transitive and the
\* order respects it.
Consistent(times) ==
    \A i, j, k \in 1..Len(times) :
        /\ (Cmp(times[i], times[j]) = 0 /\ Cmp(times[j], times[k]) = 0)
              => Cmp(times[i], times[k]) = 0
        /\ (Cmp(times[i], times[j]) < 0 /\ Cmp(times[j], times[k]) = 0)
              => Cmp(times[i], times[k]) < 0
        /\ (Cmp(times[i], times[j]) = 0 /\ Cmp(times[j], times[k]) < 0)
              => Cmp(times[i], times[k]) < 0

\* Index x placed before the first index that must come after it.
RECURSIVE InsertSorted(_, _, _)
InsertSorted(order, x, times) ==
    IF order = <<>> THEN <<x>>
    ELSE IF Cmp(times[Head(order)], times[x]) > 0 THEN <<x>> \o order
    ELSE <<Head(order)>> \o InsertSorted(Tail(order), x, times)

\* The stable order of the indices 1..n under the comparator.
RECURSIVE StableOrder(_, _)
StableOrder(times, n) ==
    IF n = 0 THEN <<>> ELSE InsertSorted(StableOrder(times, n - 1), n, times)

\* The orders Array.prototype.sort may give: the stable order under a
\* consistent comparator, and an implementation-defined order (some
\* permutation) otherwise.
SortOrders(times) ==
    IF Consistent(times) THEN {StableOrder(times, Len(times))}
    ELSE Permutations(1..Len(times))

\* The results list.sort(comparator) may give.
SortOutcomes(list) ==
    UNION {{[i \in 1..Len(list) |-> list[order[i]]] : order \in SortOrders(times)} :
              times \in {EntryTimes(list)}}

\* ------------------------------------------------------------ upstream data of a request

\* The most upstream records one request receives, over all its calls.
MaxItems == 2

AtFull ==
    [EmptyItem EXCEPT
        !.f["codigo"] = Num(7),
        !.f["situacao"] = Str(<<"V", "i", "s", "i", "t", "a">>),
        !.f["unidadenome"] = Str(<<"S", "u", "l">>),
        !.f["datahoraentradalead"] = Str(<<"2", "5", "/", "1", "2", "/", "2", "0", "2", "4", " ", "1", "4", ":", "3", "0">>),
        !.f["datahoraultimainteracao"] = Str(<<"2", "5", "/", "1", "2", "/", "2", "0", "2", "4", " ", "1", "5", ":", "0", "0">>),
        !.f["midia"] = Str(<<"P", "o", "r", "t", "a", "l">>),
        !.lead = LeadObj([nome |-> Str(<<"A", "n", "a">>), telefone1 |-> Str(<<"1", "1", "9">>),
                          celular |-> Str(<<"1", "1", "8">>), email |-> Str(<<"a", "@", "x">>)])]

\* Dates that are three slash-separated parts, none a number.
AtSlashGarbage ==
    [EmptyItem EXCEPT
        !.f["codigo"] = Num(12),
        !.f["datahoraentradalead"] = Str(<<"a", "/", "b", "/", "c">>),
        !.f["datahoraultimainteracao"] = Str(<<"a", "/", "b", "/", "c">>)]

\* A raw lead: flat fields, an ISO date.
RawLead ==
    [EmptyItem EXCEPT
        !.f["id"] = Num(21),
        !.f["nome"] = Str(<<"B", "i", "a">>),
        !.f["telefone"] = Str(<<"1", "1", "6">>),
        !.f["status"] = Str(<<"E", "m", " ", "A", "t", "e", "n", "d", "i", "m", "e", "n", "t", "o">>),
        !.f["time"] = Str(<<"N", "o", "r", "t", "e">>),
        !.f["data_criacao"] = Str(<<"2", "0", "2", "4", "-", "1", "2", "-", "2", "6", "T", "0", "9", ":", "0", "0", ":", "0", "0">>),
        !.f["origem"] = Str(<<"P", "o", "r", "t", "a", "l">>)]

\* The elements an upstream list is made of.
Catalogue ==
    {NullItem, EmptyItem, AtFull, AtSlashGarbage, RawLead}

SeqsUpTo(S, n) == UNION {[1..k -> S] : k \in 0..n}

\* The bodies upstream may answer with, of at most n records: a value that
\* is no list, an array of records, and a list wrapped under a key.
PayloadsUpTo(n) ==
    {PrimPayload}
    \cup {ArrayPayload(l) : l \in SeqsUpTo(Catalogue, n)}
    \cup (IF n >= 1 THEN {Wrapped("leads", <<AtFull>>)} ELSE {})

PayloadTable == [n \in 0..MaxItems |-> PayloadsUpTo(n)]

Payloads(n) == PayloadTable[n]

\* The records a body holds.
PayloadItems(data) ==
    IF data.kind = "array" THEN Len(data.list)
    ELSE IF data.kind = "obj"
         THEN LET keys == {k \in WrapKeys : data.w[k].isArray}
              IN  IF keys = {} THEN 0 ELSE Len(data.w[CHOOSE k \in keys : TRUE].list)
         ELSE 0

\* ------------------------------------------------------------ the GET handlers

Endpoints == {"proxy-leads", "proxy-leads-all"}

\* IMOVIEW_API_KEY: unset, empty, or set.
ApiKeys == {Undef, Str(<<>>), Str(<<"k">>)}

\* The upstream calls of a request: RetornarAtendimentos for finalidade 1
\* and 2 (both endpoints) and fetchLeadsBrutos (/api/proxy-leads-all).
CallIds == {"aluguel", "venda", "brutos"}
CallsOf(ep) == IF ep = "proxy-leads" THEN {"aluguel", "venda"} ELSE CallIds
Finalidade(c) == IF c = "aluguel" THEN 1 ELSE IF c = "venda" THEN 2 ELSE 0

\* The candidate URLs of fetchLeadsBrutos, in order.
BrutosUrls == <<"Lead/RetornarLeads", "Leads/RetornarLeads", "Portal/RetornarLeads">>

Failures == {"throw", "notok", "badjson"}

IdleCall == [st |-> "idle", outcome |-> "none", body |-> FalsyPayload,
             result |-> ArrayPayload(<<>>), attempt |-> 0]

NoResponse == [status |-> 0, kind |-> "none", leads |-> <<>>]
ErrorResponse == [status |-> 500, kind |-> "error", leads |-> <<>>]
\* An exception that leaves GET: the framework answers 500, without the
\* handler's body.
ExceptionResponse == [status |-> 500, kind |-> "exception", leads |-> <<>>]
LeadsResponse(leads) == [status |-> 200, kind |-> "leads", leads |-> leads]

Request(c, url) == [call |-> c, url |-> url, finalidade |-> Finalidade(c)]

RECURSIVE SumItems(_, _)
SumItems(cs, S) ==
    IF S = {} THEN 0
    ELSE LET c == CHOOSE x \in S : TRUE
         IN  PayloadItems(cs[c].body) + SumItems(cs, S \ {c})

\* The records the request has received so far.
Received == SumItems(calls, CallIds)

InitRequest ==
    /\ endpoint \in Endpoints
    /\ apiKey \in ApiKeys
    /\ now \in NowValues
    /\ pc = "start"
    /\ calls = [c \in CallIds |-> IdleCall]
    /\ requests = <<>>
    /\ response = NoResponse

\* if (!API_KEY) return NextResponse.json({ error }, { status: 500 })
GetNoKey ==
    /\ pc = "start"
    /\ ~Truthy(apiKey)
    /\ response' = ErrorResponse
    /\ pc' = "done"
    /\ UNCHANGED <<endpoint, apiKey, now, calls, requests>>

\* GetStart without the check of the API key: the calls are issued even
\* when no key is configured.
GetStartUnchecked ==
    /\ pc = "start"
    /\ calls' = [c \in CallIds |->
                    IF c \in CallsOf(endpoint)
                    THEN [IdleCall EXCEPT !.st = "pending", !.attempt = 1]
                    ELSE IdleCall]
    /\ requests' = <<Request("aluguel", "Atendimento/RetornarAtendimentos"),
                     Request("venda", "Atendimento/RetornarAtendimentos")>>
                   \o (IF endpoint = "proxy-leads-all"
                       THEN <<Request("brutos", BrutosUrls[1])>> ELSE <<>>)
    /\ pc' = "awaiting"
    /\ UNCHANGED <<endpoint, apiKey, now, response>>

\* Promise.all([...]): every call runs to its first await, the fetch, before
\* the handler awaits.
GetStart ==
    /\ pc = "start"
    /\ Truthy(apiKey)
    /\ calls' = [c \in CallIds |->
                    IF c \in CallsOf(endpoint)
                    THEN [IdleCall EXCEPT !.st = "pending", !.attempt = 1]
                    ELSE IdleCall]
    /\ requests' = <<Request("aluguel", "Atendimento/RetornarAtendimentos"),
                     Request("venda", "Atendimento/RetornarAtendimentos")>>
                   \o (IF endpoint = "proxy-leads-all"
                       THEN <<Request("brutos", BrutosUrls[1])>> ELSE <<>>)
    /\ pc' = "awaiting"
    /\ UNCHANGED <<endpoint, apiKey, now, response>>

\* What fetchLeads (/api/proxy-leads) returns: the parsed body, or [].
fetchLeads(outcome, body) ==
    IF outcome = "ok" THEN body ELSE ArrayPayload(<<>>)

\* What fetchAtendimentos (/api/proxy-leads-all) returns: the extracted
\* list, or [].
fetchAtendimentos(outcome, body) ==
    IF outcome = "ok" THEN ArrayPayload(extractListAll(body)) ELSE ArrayPayload(<<>>)

\* A RetornarAtendimentos call fails: fetch throws, the status is not OK, or
\* the body is not JSON.  The catch of the call returns [].
AtendimentoFails(c, failure) ==
    /\ pc = "awaiting"
    /\ c \in {"aluguel", "venda"}
    /\ calls[c].st = "pending"
    /\ calls' = [calls EXCEPT ![c] =
                    [@ EXCEPT !.st = "done", !.outcome = failure,
                              !.result = IF endpoint = "proxy-leads"
                                         THEN fetchLeads(failure, FalsyPayload)
                                         ELSE fetchAtendimentos(failure, FalsyPayload)]]
    /\ UNCHANGED <<endpoint, apiKey, now, pc, requests, response>>

\* A RetornarAtendimentos call answers 200 with a JSON body.
AtendimentoAnswers(c, body) ==
    /\ pc = "awaiting"
    /\ c \in {"aluguel", "venda"}
    /\ calls[c].st = "pending"
    /\ calls' = [calls EXCEPT ![c] =
                    [@ EXCEPT !.st = "done", !.outcome = "ok", !.body = body,
                              !.result = IF endpoint = "proxy-leads"
                                         THEN fetchLeads("ok", body)
                                         ELSE fetchAtendimentos("ok", body)]]
    /\ UNCHANGED <<endpoint, apiKey, now, pc, requests, response>>

\* BrutosTurn with a loop that goes on to the next URL after a non-empty
\* list too, and returns the list of the last URL.
BrutosTurnEveryUrl(outcome, body) ==
    /\ pc = "awaiting"
    /\ calls["brutos"].st = "pending"
    /\ LET list == IF outcome = "ok" THEN extractListAll(body) ELSE <<>>
           k == calls["brutos"].attempt
       IN  IF k < Len(BrutosUrls)
           THEN /\ calls' = [calls EXCEPT !["brutos"] =
                                [@ EXCEPT !.attempt = k + 1, !.outcome = outcome,
                                          !.body = body]]
                /\ requests' = Append(requests, Request("brutos", BrutosUrls[k + 1]))
           ELSE /\ calls' = [calls EXCEPT !["brutos"] =
                                [@ EXCEPT !.st = "done", !.outcome = outcome,
                                          !.body = body, !.result = ArrayPayload(list)]]
                /\ UNCHANGED requests
    /\ UNCHANGED <<endpoint, apiKey, now, pc, response>>

\* One turn of the loop of fetchLeadsBrutos: the current URL answered (or
\* failed).  A non-empty list is returned; otherwise the next URL is
\* fetched, and [] is returned after the last.  outcome and body are those
\* of the URL tried last.
BrutosTurn(outcome, body) ==
    /\ pc = "awaiting"
    /\ calls["brutos"].st = "pending"
    /\ LET list == IF outcome = "ok" THEN extractListAll(body) ELSE <<>>
           k == calls["brutos"].attempt
       IN  IF Len(list) > 0
           THEN /\ calls' = [calls EXCEPT !["brutos"] =
                                [@ EXCEPT !.st = "done", !.outcome = outcome,
                                          !.body = body, !.result = ArrayPayload(list)]]
                /\ UNCHANGED requests
           ELSE IF k < Len(BrutosUrls)
           THEN /\ calls' = [calls EXCEPT !["brutos"] =
                                [@ EXCEPT !.attempt = k + 1, !.outcome = outcome,
                                          !.body = body]]
                /\ requests' = Append(requests, Request("brutos", BrutosUrls[k + 1]))
           ELSE /\ calls' = [calls EXCEPT !["brutos"] =
                                [@ EXCEPT !.st = "done", !.outcome = outcome,
                                          !.body = body, !.result = ArrayPayload(<<>>)]]
                /\ UNCHANGED requests
    /\ UNCHANGED <<endpoint, apiKey, now, pc, response>>

AllDone == \A c \in CallsOf(endpoint) : calls[c].st = "done"

\* The rest of GET of /api/proxy-leads, after the await: extract, map, sort,
\* respond.  An exception is caught by the handler's try: status 500.
FinishProxyLeads ==
    /\ pc = "awaiting"
    /\ endpoint = "proxy-leads"
    /\ AllDone
    /\ LET rawLeads == extractList(calls["aluguel"].result)
                       \o extractList(calls["venda"].result)
       IN  IF \E i \in 1..Len(rawLeads) : Throws(rawLeads[i])
           THEN response' = ErrorResponse
           ELSE \E rnd \in RandomDraws([i \in 1..Len(rawLeads) |->
                                        ~Truthy(ToStringOpt(Field(rawLeads[i], "codigo")))]) :
                  \E mapped \in {mappedLeads(rawLeads, rnd, now)} :
                     \E sorted \in SortOutcomes(mapped) :
                        response' = LeadsResponse(sorted)
    /\ pc' = "done"
    /\ UNCHANGED <<endpoint, apiKey, now, calls, requests>>

\* The rest of GET of /api/proxy-leads-all, after the await.  Nothing
\* catches an exception here: it leaves GET.
FinishProxyLeadsAll ==
    /\ pc = "awaiting"
    /\ endpoint = "proxy-leads-all"
    /\ AllDone
    /\ LET ats == calls["aluguel"].result.list \o calls["venda"].result.list
           brutos == calls["brutos"].result.list
           raw == brutos \o ats
       IN  IF \E i \in 1..Len(raw) : Throws(raw[i])
           THEN response' = ExceptionResponse
           ELSE \E rnd \in RandomDraws([i \in 1..Len(raw) |->
                                        IF i <= Len(brutos)
                                        THEN Coalesce(getNumOrStr(Field(raw[i], "id")),
                                                      getNumOrStr(Field(raw[i], "codigo"))) = Undef
                                        ELSE getNumOrStr(Field(raw[i], "codigo")) = Undef]) :
                  \E all \in {allLeads(brutos, ats, rnd, now)} :
                     \E sorted \in SortOutcomes(all) :
                        response' = LeadsResponse(sorted)
    /\ pc' = "done"
    /\ UNCHANGED <<endpoint, apiKey, now, calls, requests>>

\* ------------------------------------------------------------ map and sort

\* The rest of GET of /api/proxy-leads after the await, on the extracted
\* records: the responses it may give (map, sort, respond; an exception is
\* caught: status 500).
ProxyLeadsTail(rawLeads, clock) ==
    IF \E i \in 1..Len(rawLeads) : Throws(rawLeads[i])
    THEN {ErrorResponse}
    ELSE UNION {{LeadsResponse(sorted) : sorted \in SortOutcomes(mapped)} :
                   mapped \in {mappedLeads(rawLeads, rnd, clock) :
                                  rnd \in RandomDraws([i \in 1..Len(rawLeads) |->
                                             ~Truthy(ToStringOpt(Field(rawLeads[i], "codigo")))])}}

\* The rest of GET of /api/proxy-leads-all after the await, on the raw leads
\* and the attendance records (nothing catches an exception).
ProxyLeadsAllTail(brutos, ats, clock) ==
    LET raw == brutos \o ats
    IN  IF \E i \in 1..Len(raw) : Throws(raw[i])
        THEN {ExceptionResponse}
        ELSE UNION {{LeadsResponse(sorted) : sorted \in SortOutcomes(all)} :
                       all \in {allLeads(brutos, ats, rnd, clock) :
                                   rnd \in RandomDraws([i \in 1..Len(raw) |->
                                      IF i <= Len(brutos)
                                      THEN Coalesce(getNumOrStr(Field(raw[i], "id")),
                                                    getNumOrStr(Field(raw[i], "codigo"))) = Undef
                                      ELSE getNumOrStr(Field(raw[i], "codigo")) = Undef])}}

\* The longest list of records under test.
MaxSorted == 3

\* Attendance records that entered at 10:00 and at 11:00 of the same day,
\* and one whose entry date is no date.
SortOld ==
    [EmptyItem EXCEPT !.f["codigo"] = Num(1),
                      !.f["datahoraentradalead"] = Str(<<"2", "5", "/", "1", "2", "/", "2", "0", "2", "4", " ", "1", "0", ":", "0", "0">>)]
SortNew ==
    [EmptyItem EXCEPT !.f["codigo"] = Num(2),
                      !.f["datahoraentradalead"] = Str(<<"2", "5", "/", "1", "2", "/", "2", "0", "2", "4", " ", "1", "1", ":", "0", "0">>)]
SortGarbage ==
    [EmptyItem EXCEPT !.f["codigo"] = Num(3),
                      !.f["datahoraentradalead"] = Str(<<"a", "/", "b", "/", "c">>)]

SortRecords == {SortOld, SortNew, SortGarbage}

InitSort ==
    /\ sortIn \in SeqsUpTo(SortRecords, MaxSorted)
    /\ sortOut = [e \in Endpoints |-> NoResponse]

\* /api/proxy-leads maps and sorts the records.
ApplyProxyLeadsTail ==
    /\ sortOut["proxy-leads"] = NoResponse
    /\ \E r \in ProxyLeadsTail(sortIn, now) :
          sortOut' = [sortOut EXCEPT !["proxy-leads"] = r]
    /\ UNCHANGED sortIn

\* /api/proxy-leads-all maps and sorts the records, received as attendance
\* records.
ApplyProxyLeadsAllTail ==
    /\ sortOut["proxy-leads-all"] = NoResponse
    /\ \E r \in ProxyLeadsAllTail(<<>>, sortIn, now) :
          sortOut' = [sortOut EXCEPT !["proxy-leads-all"] = r]
    /\ UNCHANGED sortIn

\* ------------------------------------------------------------ SLA

\* A number of the SLA arithmetic: a finite value or NaN.
Number(v) == [nan |-> FALSE, v |-> v]
NotANumber == [nan |-> TRUE, v |-> 0]

\* The instant all times of the SLA arithmetic are counted from:
\* 2024-12-25T00:00:00, in seconds since 1970.  (getSLAInfo only subtracts
\* times, and milliseconds since 1970 do not fit TLC's integers.)
SlaEpoch == DaysFromCivil(2024, 12, 25) * 86400

\* The milliseconds of "...:ss.sssZ", 0 where the text has no fraction.
Millis(s) == IF StripZone(s) = s THEN 0 ELSE ToNat(SubSeq(s, Len(s) - 3, Len(s) - 1))

\* new Date(s).getTime(), in milliseconds since SlaEpoch.
GetTimeMs(s) ==
    IF GetTime(s) = NaN THEN NotANumber
    ELSE Number((GetTime(s) - SlaEpoch) * 1000 + Millis(s))

\* `${n}` of an integer
IntText(n) == IF n < 0 THEN <<"-">> \o NumToStr(0 - n) ELSE NumToStr(n)

AtendidoEm == <<"A", "t", "e", "n", "d", "i", "d", "o", " ", "e", "m", " ">>
EsperandoHa == <<"E", "s", "p", "e", "r", "a", "n", "d", "o", " ", "h", "á", " ">>
Atrasado == <<"A", "t", "r", "a", "s", "a", "d", "o">>
NoPrazo == <<"N", "o", " ", "P", "r", "a", "z", "o">>
NaNText == <<"N", "a", "N">>

\* The label of getSLAInfo; unit is "min" on the Dashboard and "m" on the
\* Reports page.
SlaLabel(firstInteraction, nan, diffMinutes, diffHours, unit) ==
    LET prefix == IF Truthy(firstInteraction) THEN AtendidoEm ELSE EsperandoHa
    IN  IF nan THEN prefix \o NaNText \o <<"h", " ">> \o NaNText \o unit
        ELSE IF diffMinutes < 60 THEN prefix \o IntText(diffMinutes) \o unit
        ELSE prefix \o IntText(diffHours) \o <<"h", " ">> \o IntText(diffMinutes % 60) \o unit

\* getSLAInfo with the rule of its comment ("> 2 horas = Atrasado").
getSLAInfoStrict(entry, firstInteraction, clock) ==
    LET entryTime == GetTimeMs(entry)
        endTime == IF Truthy(firstInteraction) THEN GetTimeMs(firstInteraction.s)
                   ELSE Number(clock)
        nan == entryTime.nan \/ endTime.nan
        diffMs == endTime.v - entryTime.v
        diffMinutes == diffMs \div (1000 * 60)
        diffHours == diffMinutes \div 60
        isLate == ~nan /\ diffHours > 2
    IN  [isLate |-> isLate,
         label |-> SlaLabel(firstInteraction, nan, diffMinutes, diffHours, <<"m", "i", "n">>),
         status |-> IF isLate THEN Atrasado ELSE NoPrazo]

\* getSLAInfo of the Dashboard; clock is new Date().getTime(), in
\* milliseconds since SlaEpoch.  A comparison with NaN is false.
getSLAInfo(entry, firstInteraction, clock) ==
    LET entryTime == GetTimeMs(entry)
        endTime == IF Truthy(firstInteraction) THEN GetTimeMs(firstInteraction.s)
                   ELSE Number(clock)
        nan == entryTime.nan \/ endTime.nan
        diffMs == endTime.v - entryTime.v
        diffMinutes == diffMs \div (1000 * 60)
        diffHours == diffMinutes \div 60
        isLate == ~nan /\ diffHours >= 2
    IN  [isLate |-> isLate,
         label |-> SlaLabel(firstInteraction, nan, diffMinutes, diffHours, <<"m", "i", "n">>),
         status |-> IF isLate THEN Atrasado ELSE NoPrazo]

\* getSLAInfo of the Reports page
ReportsGetSLAInfo(entry, firstInteraction, clock) ==
    LET entryTime == GetTimeMs(entry)
        endTime == IF Truthy(firstInteraction) THEN GetTimeMs(firstInteraction.s)
                   ELSE Number(clock)
        nan == entryTime.nan \/ endTime.nan
        diffMs == endTime.v - entryTime.v
        diffMinutes == diffMs \div (1000 * 60)
        diffHours == diffMinutes \div 60
        isLate == ~nan /\ diffHours >= 2
    IN  [isLate |-> isLate,
         label |-> SlaLabel(firstInteraction, nan, diffMinutes, diffHours, <<"m">>),
         diffMinutes |-> IF nan THEN NotANumber ELSE Number(diffMinutes)]

\* ------------------------------------------------------------ SLA under test

SlaEntries ==
    {<<"2", "0", "2", "4", "-", "1", "2", "-", "2", "5", "T", "1", "0", ":", "0", "0", ":", "0", "0">>,
     <<"2", "0", "2", "4", "-", "1", "2", "-", "2", "5", "T", "1", "0", ":", "0", "0", ":", "3", "0">>,
     <<"2", "0", "2", "4", "-", "1", "2", "-", "2", "5", "T", "0", "9", ":", "5", "9", ":", "5", "9", ".", "5", "0", "0", "Z">>,
     <<"c", "-", "b", "-", "a", "T", "0", "0", ":", "0", "0", ":", "0", "0">>}

SlaFirsts ==
    {Undef, Null, Str(<<>>)}
    \cup {Str(t) : t \in {<<"2", "0", "2", "4", "-", "1", "2", "-", "2", "5", "T", "1", "1", ":", "5", "9", ":", "0", "0">>,
                          <<"2", "0", "2", "4", "-", "1", "2", "-", "2", "5", "T", "1", "2", ":", "0", "0", ":", "0", "0">>,
                          <<"2", "0", "2", "4", "-", "1", "2", "-", "2", "5", "T", "1", "2", ":", "0", "0", ":", "2", "9">>,
                          <<"2", "0", "2", "4", "-", "1", "2", "-", "2", "5", "T", "1", "2", ":", "0", "0", ":", "3", "0">>,
                          <<"2", "0", "2", "4", "-", "1", "2", "-", "2", "5", "T", "1", "2", ":", "0", "1", ":", "0", "0">>,
                          <<"2", "0", "2", "4", "-", "1", "2", "-", "2", "5", "T", "1", "3", ":", "0", "0", ":", "0", "0">>,
                          <<"2", "0", "2", "4", "-", "1", "2", "-", "2", "5", "T", "0", "9", ":", "0", "0", ":", "0", "0">>,
                          <<"2", "0", "2", "4", "-", "1", "2", "-", "2", "5", "T", "1", "0", ":", "3", "0", ":", "0", "0">>,
                          <<"u", "n", "d", "e", "f", "i", "n", "e", "d", "-", "u", "n", "d", "e", "f", "i", "n", "e", "d", "-", "a", "b", "c", "T", "0", "0", ":", "0", "0", ":", "0", "0">>}}

\* 10:00:00 of the day of SlaEpoch, in milliseconds.
TenOClock == 10 * 3600 * 1000

SlaClocks ==
    {TenOClock + d : d \in {0 - 60000, 0, 119 * 60000 + 59999, 120 * 60000,
                            120 * 60000 + 30000, 179 * 60000, 180 * 60000}}

SlaPages == {"dashboard", "reports"}

NotComputed == [done |-> FALSE, isLate |-> FALSE, label |-> <<>>]
Computed(info) == [done |-> TRUE, isLate |-> info.isLate, label |-> info.label]

InitSla ==
    /\ slaIn \in [entry : SlaEntries, first : SlaFirsts, clock : SlaClocks]
    /\ slaOut = [p \in SlaPages |-> NotComputed]

\* A row of the Dashboard's lead table is rendered.
ApplyGetSLAInfo ==
    /\ ~slaOut["dashboard"].done
    /\ slaOut' = [slaOut EXCEPT !["dashboard"] =
                     Computed(getSLAInfo(slaIn.entry, slaIn.first, slaIn.clock))]
    /\ UNCHANGED slaIn

\* A row of the Reports page's audit table is rendered.
ApplyReportsGetSLAInfo ==
    /\ ~slaOut["reports"].done
    /\ slaOut' = [slaOut EXCEPT !["reports"] =
                     Computed(ReportsGetSLAInfo(slaIn.entry, slaIn.first, slaIn.clock))]
    /\ UNCHANGED slaIn

\* ------------------------------------------------------------ pages: derived data

\* String.prototype.toLowerCase, on the letters A-Z
Lower(c) ==
    CASE
         c = "A" -> "a"
      [] c = "B" -> "b"
      [] c = "C" -> "c"
      [] c = "D" -> "d"
      [] c = "E" -> "e"
      [] c = "F" -> "f"
      [] c = "G" -> "g"
      [] c = "H" -> "h"
      [] c = "I" -> "i"
      [] c = "J" -> "j"
      [] c = "K" -> "k"
      [] c = "L" -> "l"
      [] c = "M" -> "m"
      [] c = "N" -> "n"
      [] c = "O" -> "o"
      [] c = "P" -> "p"
      [] c = "Q" -> "q"
      [] c = "R" -> "r"
      [] c = "S" -> "s"
      [] c = "T" -> "t"
      [] c = "U" -> "u"
      [] c = "V" -> "v"
      [] c = "W" -> "w"
      [] c = "X" -> "x"
      [] c = "Y" -> "y"
      [] c = "Z" -> "z"
      [] OTHER -> c

ToLowerCase(s) == [i \in 1..Len(s) |-> Lower(s[i])]

\* String.prototype.includes
Includes(s, sub) ==
    \E i \in 0..(Len(s) - Len(sub)) : SubSeq(s, i + 1, i + Len(sub)) = sub

Visita == <<"v", "i", "s", "i", "t", "a">>
Agendado == <<"a", "g", "e", "n", "d", "a", "d", "o">>
EmAtendimento == <<"e", "m", " ", "a", "t", "e", "n", "d", "i", "m", "e", "n", "t", "o">>
ContatoFeito == <<"c", "o", "n", "t", "a", "t", "o", " ", "f", "e", "i", "t", "o">>
Todos == <<"T", "o", "d", "o", "s">>

\* ((part / total) * 100).toFixed(1) + '%'
PercentText(part, total) ==
    LET tenths == (part * 1000 * 2 + total) \div (2 * total)
    IN  IntText(tenths \div 10) \o <<".", DigitChar(tenths % 10), "%">>

\* The element function of the Dashboard's normalization, on a lead of the
\* proxy's JSON (an undefined field of the proxy's lead is absent from the
\* JSON, a null one is null); all says whether it is fetchLeadsAll's, which
\* also sets tem_atendimento.  The proxy's leads have none of the fields
\* name, phone, celular, team, fila, created_at, first_interaction.
DashboardLead(l, rnd, clock, all) ==
    Lead(Coalesce(l.id, Str(rnd)),
         Coalesce(l.nome, Coalesce(Undef, SemNome)),
         Coalesce(l.telefone, Coalesce(Undef, Coalesce(Undef, EmptyStr))),
         Coalesce(l.email, EmptyStr),
         Coalesce(l.status, Novo),
         Coalesce(l.time, Coalesce(Undef, Coalesce(Undef, Geral))),
         Coalesce(l.data_entrada, Coalesce(Undef, Str(clock))),
         Coalesce(l.primeira_interacao, Coalesce(Undef, Undef)),
         Coalesce(l.origem, Site),
         IF all THEN Bool(l.tem_atendimento = Bool(TRUE)) ELSE Undef,
         NullItem)

\* The element function of the Reports page's normalization, on a lead of
\* the JSON of /api/proxy-leads, which has none of codigo, lead, situacao,
\* unidadenome, datahora..., midia at its top level.  (_raw, the proxy's
\* lead, is not kept here.)
ReportsLead(l, rnd, clock) ==
    Lead(Or(l.id, Or(ToStringOpt(Undef), Str(rnd))),
         Or(l.nome, Or(Undef, SemNome)),
         Or(l.telefone, Or(Undef, Or(Undef, EmptyStr))),
         Or(l.email, Or(Undef, EmptyStr)),
         Or(l.status, Or(Undef, Novo)),
         Or(l.time, Or(Undef, Geral)),
         Or(l.data_entrada, Or(ReportsParseImoviewDate(Undef), Str(clock))),
         Or(l.primeira_interacao, Or(ReportsParseImoviewDate(Undef), Null)),
         Or(l.origem, Or(Undef, Site)),
         Undef,
         NullItem)

\* rawLeads.map(...) of a page; the proxies' leads all have an id, so
\* Math.random() is drawn for none.
RECURSIVE DashboardLeads(_, _, _)
DashboardLeads(rawLeads, clock, all) ==
    IF rawLeads = <<>> THEN <<>>
    ELSE <<DashboardLead(Head(rawLeads), <<>>, clock, all)>>
         \o DashboardLeads(Tail(rawLeads), clock, all)

RECURSIVE ReportsLeads(_, _)
ReportsLeads(rawLeads, clock) ==
    IF rawLeads = <<>> THEN <<>>
    ELSE <<ReportsLead(Head(rawLeads), <<>>, clock)>> \o ReportsLeads(Tail(rawLeads), clock)

\* l.time || 'Geral'
TeamOf(l) == Or(l.time, Geral).s

\* teams of the Dashboard, as a set: 'Todos' and the team of every lead.
teams(currentLeads) == {Todos} \cup {TeamOf(currentLeads[i]) : i \in 1..Len(currentLeads)}

\* filteredLeads of the Dashboard
filteredLeads(currentLeads, selectedTeam) ==
    IF selectedTeam = Todos THEN currentLeads
    ELSE SelectSeq(currentLeads, LAMBDA l : l.time = Str(selectedTeam))

IsVisita(l) == Includes(ToLowerCase(l.status.s), Visita)
IsAtendimento(l) == ToLowerCase(l.status.s) \in {EmAtendimento, ContatoFeito}
IsPendente(l) == ~Truthy(l.primeira_interacao)

\* kpis with the pending leads taken to be those of status 'Novo'.
kpisByStatus(leads) ==
    LET total == Len(leads)
        agendamentos == Len(SelectSeq(leads, IsVisita))
    IN  [totalLeads |-> total,
         agendamentos |-> agendamentos,
         conversao |-> IF total > 0 THEN PercentText(agendamentos, total) ELSE <<"0", "%">>,
         atendimento |-> Len(SelectSeq(leads, IsAtendimento)),
         pendentes |-> Len(SelectSeq(leads, LAMBDA l : l.status = Novo))]

\* kpis of the Dashboard, of the filtered leads
kpis(leads) ==
    LET total == Len(leads)
        agendamentos == Len(SelectSeq(leads, IsVisita))
    IN  [totalLeads |-> total,
         agendamentos |-> agendamentos,
         conversao |-> IF total > 0 THEN PercentText(agendamentos, total) ELSE <<"0", "%">>,
         atendimento |-> Len(SelectSeq(leads, IsAtendimento)),
         pendentes |-> Len(SelectSeq(leads, IsPendente))]

\* The rows of the table 'Leads Pendentes' of the Dashboard
pendingTable(leads) == SelectSeq(leads, IsPendente)

\* The instant the pages render at (new Date().getTime()), in milliseconds
\* since SlaEpoch: 13:00:00 of that day.
RenderClock == TenOClock + 3 * 3600 * 1000

\* The team names of the leads in order of first appearance (the insertion
\* order of the keys of stats).
RECURSIVE TeamOrder(_, _)
TeamOrder(leads, seen) ==
    IF leads = <<>> THEN <<>>
    ELSE IF TeamOf(Head(leads)) \in seen THEN TeamOrder(Tail(leads), seen)
    ELSE <<TeamOf(Head(leads))>> \o TeamOrder(Tail(leads), seen \cup {TeamOf(Head(leads))})

\* The statistics of one team, of the Reports page
TeamStat(leads, name) ==
    LET mine == SelectSeq(leads, LAMBDA l : TeamOf(l) = name)
        agendamentos == Len(SelectSeq(mine, LAMBDA l :
                                       \/ Includes(ToLowerCase(l.status.s), Visita)
                                       \/ Includes(ToLowerCase(l.status.s), Agendado)))
    IN  [name |-> name,
         total |-> Len(mine),
         slasCritical |-> Len(SelectSeq(mine, LAMBDA l :
                             ReportsGetSLAInfo(l.data_entrada.s, l.primeira_interacao,
                                               RenderClock).isLate)),
         agendamentos |-> agendamentos,
         efficiency |-> IF Len(mine) > 0 THEN PercentText(agendamentos, Len(mine))
                        ELSE <<"0", ".", "0", "%">>]

\* stat placed after the last element whose total is not smaller
RECURSIVE InsertByTotal(_, _)
InsertByTotal(sorted, stat) ==
    IF sorted = <<>> THEN <<stat>>
    ELSE IF Head(sorted).total < stat.total THEN <<stat>> \o sorted
    ELSE <<Head(sorted)>> \o InsertByTotal(Tail(sorted), stat)

RECURSIVE SortByTotal(_)
SortByTotal(stats) ==
    IF stats = <<>> THEN <<>>
    ELSE InsertByTotal(SortByTotal(SubSeq(stats, 1, Len(stats) - 1)), stats[Len(stats)])

\* The property names stats = {} inherits from Object.prototype: stats[name]
\* is truthy for them before anything is stored.
ObjectPrototypeKeys ==
    {<<"c", "o", "n", "s", "t", "r", "u", "c", "t", "o", "r">>,
     <<"h", "a", "s", "O", "w", "n", "P", "r", "o", "p", "e", "r", "t", "y">>,
     <<"i", "s", "P", "r", "o", "t", "o", "t", "y", "p", "e", "O", "f">>,
     <<"p", "r", "o", "p", "e", "r", "t", "y", "I", "s", "E", "n", "u", "m", "e", "r", "a", "b", "l", "e">>,
     <<"t", "o", "L", "o", "c", "a", "l", "e", "S", "t", "r", "i", "n", "g">>,
     <<"t", "o", "S", "t", "r", "i", "n", "g">>,
     <<"v", "a", "l", "u", "e", "O", "f">>,
     <<"_", "_", "p", "r", "o", "t", "o", "_", "_">>,
     <<"_", "_", "d", "e", "f", "i", "n", "e", "G", "e", "t", "t", "e", "r", "_", "_">>,
     <<"_", "_", "d", "e", "f", "i", "n", "e", "S", "e", "t", "t", "e", "r", "_", "_">>,
     <<"_", "_", "l", "o", "o", "k", "u", "p", "G", "e", "t", "t", "e", "r", "_", "_">>,
     <<"_", "_", "l", "o", "o", "k", "u", "p", "S", "e", "t", "t", "e", "r", "_", "_">>}

\* teamStats of the Reports page: the statistics of every team, largest
\* total first (a stable sort).  `if (!stats[teamName])` creates no entry
\* for a team named as an inherited property: the counts of its leads go
\* to the inherited object, and Object.values(stats) holds own entries only.
\* (No team name under test is an integer index, which Object.values would
\* list first.)
teamStats(leads) ==
    LET own == SelectSeq(leads, LAMBDA l : TeamOf(l) \notin ObjectPrototypeKeys)
        order == TeamOrder(own, {})
    IN  SortByTotal([i \in 1..Len(order) |-> TeamStat(own, order[i])])

\* ------------------------------------------------------------ pages: state and events

\* The most fetches one visit of a page issues.
MaxFetches == 3

KeyMissing == <<"A", "P", "I", " ", "K", "e", "y", " ", "n", "ã", "o", " ", "c", "o", "n", "f", "i", "g", "u", "r", "a", "d", "a", " ", "n", "o", " ", "s", "e", "r", "v", "i", "d", "o", "r", " ", "(", "I", "M", "O", "V", "I", "E", "W", "_", "A", "P", "I", "_", "K", "E", "Y", ")">>
FalhaInterna == <<"F", "a", "l", "h", "a", " ", "i", "n", "t", "e", "r", "n", "a", " ", "a", "o", " ", "c", "o", "n", "e", "c", "t", "a", "r", " ", "c", "o", "m", " ", "a", " ", "A", "P", "I">>
FalhaAoCarregar == <<"F", "a", "l", "h", "a", " ", "a", "o", " ", "c", "a", "r", "r", "e", "g", "a", "r", " ", "l", "e", "a", "d", "s">>
FailedToFetch == <<"F", "a", "i", "l", "e", "d", " ", "t", "o", " ", "f", "e", "t", "c", "h">>
UnexpectedToken == <<"U", "n", "e", "x", "p", "e", "c", "t", "e", "d", " ", "t", "o", "k", "e", "n">>

PAtVisita ==
    [EmptyItem EXCEPT
        !.f["codigo"] = Num(51),
        !.f["situacao"] = Str(<<"V", "i", "s", "i", "t", "a", " ", "A", "g", "e", "n", "d", "a", "d", "a">>),
        !.f["unidadenome"] = Str(<<"S", "u", "l">>),
        !.f["datahoraentradalead"] = Str(<<"2", "5", "/", "1", "2", "/", "2", "0", "2", "4", " ", "0", "9", ":", "0", "0">>),
        !.f["datahoraultimainteracao"] = Str(<<"2", "5", "/", "1", "2", "/", "2", "0", "2", "4", " ", "0", "9", ":", "3", "0">>)]

PAtAgendado ==
    [EmptyItem EXCEPT
        !.f["codigo"] = Num(52),
        !.f["situacao"] = Str(<<"A", "g", "e", "n", "d", "a", "d", "o">>),
        !.f["unidadenome"] = Str(<<"S", "u", "l">>),
        !.f["datahoraentradalead"] = Str(<<"2", "5", "/", "1", "2", "/", "2", "0", "2", "4", " ", "1", "0", ":", "0", "0">>)]

PAtEmAtendimento ==
    [EmptyItem EXCEPT
        !.f["codigo"] = Num(53),
        !.f["situacao"] = Str(<<"E", "m", " ", "A", "t", "e", "n", "d", "i", "m", "e", "n", "t", "o">>),
        !.f["datahoraentradalead"] = Str(<<"2", "5", "/", "1", "2", "/", "2", "0", "2", "4", " ", "1", "2", ":", "3", "0">>)]

PRaw ==
    [EmptyItem EXCEPT
        !.f["id"] = Num(61),
        !.f["status"] = Str(<<"C", "o", "n", "t", "a", "t", "o", " ", "F", "e", "i", "t", "o">>),
        !.f["time"] = Str(<<"N", "o", "r", "t", "e">>),
        !.f["data_criacao"] = Str(<<"2", "0", "2", "4", "-", "1", "2", "-", "2", "5", "T", "0", "8", ":", "0", "0", ":", "0", "0">>)]

\* What the CRM holds: attendance records and raw leads.
PageWorlds ==
    {[ats |-> <<>>, brutos |-> <<>>],
     [ats |-> <<PAtVisita, PAtAgendado>>, brutos |-> <<PRaw>>],
     [ats |-> <<PAtAgendado, PAtEmAtendimento>>, brutos |-> <<>>],
     [ats |-> <<NullItem>>, brutos |-> <<PRaw>>]}

Pages == {"dashboard", "reports"}

ProxyLeadsUrl == "/api/proxy-leads"
ProxyLeadsAllUrl == "/api/proxy-leads-all"

\* The HTTP responses a fetch of the URL may get: what the handler builds
\* from the CRM's records, or its answer when no API key is configured.
PageResponses(url) ==
    {ErrorResponse}
    \cup (IF url = ProxyLeadsUrl THEN ProxyLeadsTail(upstream.ats, now)
          ELSE ProxyLeadsAllTail(upstream.brutos, upstream.ats, now))

\* The error texts a 500 with a JSON body may carry.
ErrorBodies(url) == IF url = ProxyLeadsUrl THEN {KeyMissing, FalhaInterna} ELSE {KeyMissing}

\* useState(...) of Dashboard; fetching is the fetch function whose await is
\* pending, inFlight the number of fetches that have not completed.
DashboardInitial ==
    [mounted |-> FALSE, leads |-> <<>>, leadsAll |-> <<>>, loading |-> TRUE, error |-> Null,
     selectedTeam |-> Todos, dataMode |-> "atendimentos", fetching |-> "none",
     inFlight |-> 0]

\* useState(...) of ReportsPage
ReportsInitial ==
    [mounted |-> FALSE, leads |-> <<>>, loading |-> TRUE, error |-> Null, fetching |-> "none"]

InitPage ==
    /\ page \in Pages
    /\ upstream \in PageWorlds
    /\ dash = DashboardInitial
    /\ rep = ReportsInitial
    /\ fetchLog = <<>>
    /\ lastEvent = "none"

Fetch(url, cause) == [page |-> page, url |-> url, cause |-> cause]

\* What Dashboard renders: the spinner, the error panel, or the panels.
DashboardView ==
    IF dash.loading THEN "spinner" ELSE IF Truthy(dash.error) THEN "error" ELSE "main"

\* What ReportsPage renders
ReportsView ==
    IF rep.loading THEN "spinner" ELSE IF Truthy(rep.error) THEN "error" ELSE "main"

\* DashboardOffers with the header's refresh button rendered above the
\* spinner too.
DashboardOffersWithSpinner ==
    CASE DashboardView = "spinner" -> {"refresh"}
      [] DashboardView = "error" -> {"retry"}
      [] OTHER -> {"refresh", "atendimentos", "geral", "team", "relatorios"}

\* The controls the rendered page offers.
DashboardOffers ==
    CASE DashboardView = "spinner" -> {}
      [] DashboardView = "error" -> {"retry"}
      [] OTHER -> {"refresh", "atendimentos", "geral", "team", "relatorios"}

ReportsOffers ==
    CASE ReportsView = "spinner" -> {}
      [] ReportsView = "error" -> {"voltar"}
      [] OTHER -> {"voltar", "whatsapp", "csv"}

currentLeads == IF dash.dataMode = "geral" THEN dash.leadsAll ELSE dash.leads

\* fetchLeads of Dashboard up to its await of fetch
StartFetchLeads(cause) ==
    /\ dash' = [dash EXCEPT !.mounted = TRUE, !.loading = TRUE, !.error = Null,
                            !.fetching = "fetchLeads", !.inFlight = @ + 1]
    /\ fetchLog' = Append(fetchLog, Fetch(ProxyLeadsUrl, cause))
    /\ lastEvent' = cause

\* useEffect(() => { fetchLeads(); }, []) of Dashboard
DashMount ==
    /\ page = "dashboard"
    /\ ~dash.mounted
    /\ StartFetchLeads("load")
    /\ UNCHANGED <<page, upstream, rep>>

\* onClick={fetchLeads} of the button 'Atualizar'
DashRefresh ==
    /\ page = "dashboard" /\ dash.mounted
    /\ "refresh" \in DashboardOffers
    /\ Len(fetchLog) < MaxFetches
    /\ StartFetchLeads("refresh")
    /\ UNCHANGED <<page, upstream, rep>>

\* onClick={fetchLeads} of the button 'Tentar Novamente' of the error panel
DashRetry ==
    /\ page = "dashboard" /\ dash.mounted
    /\ "retry" \in DashboardOffers
    /\ Len(fetchLog) < MaxFetches
    /\ StartFetchLeads("retry")
    /\ UNCHANGED <<page, upstream, rep>>

\* onClick of the button 'Atendimentos'
DashSelectAtendimentos ==
    /\ page = "dashboard" /\ dash.mounted
    /\ "atendimentos" \in DashboardOffers
    /\ dash' = [dash EXCEPT !.dataMode = "atendimentos"]
    /\ lastEvent' = "atendimentos"
    /\ UNCHANGED <<page, upstream, rep, fetchLog>>

\* onClick of the button 'Leads gerais': fetchLeadsAll up to its await of
\* fetch, when no general lead is loaded.
DashSelectGeral ==
    /\ page = "dashboard" /\ dash.mounted
    /\ "geral" \in DashboardOffers
    /\ IF Len(dash.leadsAll) = 0
       THEN /\ Len(fetchLog) < MaxFetches
            /\ dash' = [dash EXCEPT !.dataMode = "geral", !.loading = TRUE, !.error = Null,
                                    !.fetching = "fetchLeadsAll", !.inFlight = @ + 1]
            /\ fetchLog' = Append(fetchLog, Fetch(ProxyLeadsAllUrl, "geral"))
       ELSE /\ dash' = [dash EXCEPT !.dataMode = "geral"]
            /\ UNCHANGED fetchLog
    /\ lastEvent' = "geral"
    /\ UNCHANGED <<page, upstream, rep>>

\* onClick of a team button
DashSelectTeam(team) ==
    /\ page = "dashboard" /\ dash.mounted
    /\ "team" \in DashboardOffers
    /\ team \in teams(currentLeads)
    /\ dash' = [dash EXCEPT !.selectedTeam = team]
    /\ lastEvent' = "team"
    /\ UNCHANGED <<page, upstream, rep, fetchLog>>

\* The message the catch of fetchLeads / fetchLeadsAll sets.
DashboardError(message) == Or(Str(message), Str(FalhaAoCarregar))

\* DashboardAfter with the list of the failed fetch emptied by the catch.
DashboardAfterClearing(r, body) ==
    LET all == dash.fetching = "fetchLeadsAll"
        done == [dash EXCEPT !.loading = FALSE, !.fetching = "none", !.inFlight = @ - 1]
        cleared == IF all THEN [done EXCEPT !.leadsAll = <<>>] ELSE [done EXCEPT !.leads = <<>>]
    IN  CASE r.kind = "error" -> [cleared EXCEPT !.error = DashboardError(body)]
          [] r.kind = "exception" -> [cleared EXCEPT !.error = DashboardError(UnexpectedToken)]
          [] OTHER ->
               IF all THEN [done EXCEPT !.leadsAll = DashboardLeads(r.leads, now, TRUE)]
               ELSE [done EXCEPT !.leads = DashboardLeads(r.leads, now, FALSE)]

\* The state after the rest of fetchLeads / fetchLeadsAll of Dashboard ran
\* on the response: a status that is not OK throws its error text (reading
\* a body that is not JSON throws), and the catch sets the message;
\* otherwise the leads are normalized and stored; finally loading is false.
DashboardAfter(r, body) ==
    LET all == dash.fetching = "fetchLeadsAll"
        done == [dash EXCEPT !.loading = FALSE, !.fetching = "none", !.inFlight = @ - 1]
    IN  CASE r.kind = "error" -> [done EXCEPT !.error = DashboardError(body)]
          [] r.kind = "exception" -> [done EXCEPT !.error = DashboardError(UnexpectedToken)]
          [] OTHER ->
               IF all THEN [done EXCEPT !.leadsAll = DashboardLeads(r.leads, now, TRUE)]
               ELSE [done EXCEPT !.leads = DashboardLeads(r.leads, now, FALSE)]

\* DashFetchDone with a fetch that is issued again when it failed.
DashFetchDoneRefetch ==
    /\ page = "dashboard"
    /\ dash.fetching # "none"
    /\ LET url == IF dash.fetching = "fetchLeadsAll" THEN ProxyLeadsAllUrl ELSE ProxyLeadsUrl
       IN  \E r \in PageResponses(url), body \in ErrorBodies(url) :
              IF r.kind # "leads" /\ Len(fetchLog) < MaxFetches
              THEN /\ dash' = dash
                   /\ fetchLog' = Append(fetchLog, Fetch(url, "refetch"))
                   /\ lastEvent' = "fetchFailed"
              ELSE /\ dash' = DashboardAfter(r, body)
                   /\ lastEvent' = IF r.kind = "leads" THEN "fetchOk" ELSE "fetchFailed"
                   /\ UNCHANGED fetchLog
    /\ UNCHANGED <<page, upstream, rep>>

\* The proxy answers the fetch of Dashboard.
DashFetchDone ==
    /\ page = "dashboard"
    /\ dash.fetching # "none"
    /\ LET url == IF dash.fetching = "fetchLeadsAll" THEN ProxyLeadsAllUrl ELSE ProxyLeadsUrl
       IN  \E r \in PageResponses(url), body \in ErrorBodies(url) :
              /\ dash' = DashboardAfter(r, body)
              /\ lastEvent' = IF r.kind = "leads" THEN "fetchOk" ELSE "fetchFailed"
    /\ UNCHANGED <<page, upstream, rep, fetchLog>>

\* The fetch of Dashboard rejects.
DashFetchThrows ==
    /\ page = "dashboard"
    /\ dash.fetching # "none"
    /\ dash' = [dash EXCEPT !.loading = FALSE, !.fetching = "none", !.inFlight = @ - 1,
                            !.error = DashboardError(FailedToFetch)]
    /\ lastEvent' = "fetchFailed"
    /\ UNCHANGED <<page, upstream, rep, fetchLog>>

\* useEffect(() => { ...; fetchLeads(); }, []) of ReportsPage: fetchLeads up
\* to its await of fetch.
RepMount ==
    /\ page = "reports"
    /\ ~rep.mounted
    /\ rep' = [rep EXCEPT !.mounted = TRUE, !.loading = TRUE, !.fetching = "fetchLeads"]
    /\ fetchLog' = Append(fetchLog, Fetch(ProxyLeadsUrl, "load"))
    /\ lastEvent' = "load"
    /\ UNCHANGED <<page, upstream, dash>>

\* The proxy answers the fetch of ReportsPage: a status that is not OK
\* throws 'Falha ao carregar leads', the catch sets err.message; otherwise
\* the leads are normalized and stored; finally loading is false.
RepFetchDone ==
    /\ page = "reports"
    /\ rep.fetching # "none"
    /\ \E r \in PageResponses(ProxyLeadsUrl) :
          /\ rep' = IF r.kind = "leads"
                    THEN [rep EXCEPT !.loading = FALSE, !.fetching = "none",
                                     !.leads = ReportsLeads(r.leads, now)]
                    ELSE [rep EXCEPT !.loading = FALSE, !.fetching = "none",
                                     !.error = Str(FalhaAoCarregar)]
          /\ lastEvent' = IF r.kind = "leads" THEN "fetchOk" ELSE "fetchFailed"
    /\ UNCHANGED <<page, upstream, dash, fetchLog>>

\* The fetch of ReportsPage rejects.
RepFetchThrows ==
    /\ page = "reports"
    /\ rep.fetching # "none"
    /\ rep' = [rep EXCEPT !.loading = FALSE, !.fetching = "none", !.error = Str(FailedToFetch)]
    /\ lastEvent' = "fetchFailed"
    /\ UNCHANGED <<page, upstream, dash, fetchLog>>

\* ------------------------------------------------------------ teams under test

\* The longest list of attendance records under test.
MaxTeamLeads == 3

TSulVisita ==
    [EmptyItem EXCEPT
        !.f["codigo"] = Num(71),
        !.f["situacao"] = Str(<<"V", "i", "s", "i", "t", "a">>),
        !.f["unidadenome"] = Str(<<"S", "u", "l">>),
        !.f["datahoraentradalead"] = Str(<<"2", "5", "/", "1", "2", "/", "2", "0", "2", "4", " ", "0", "9", ":", "0", "0">>),
        !.f["datahoraultimainteracao"] = Str(<<"2", "5", "/", "1", "2", "/", "2", "0", "2", "4", " ", "0", "9", ":", "3", "0">>)]

TSulAgendado ==
    [EmptyItem EXCEPT
        !.f["codigo"] = Num(72),
        !.f["situacao"] = Str(<<"A", "g", "e", "n", "d", "a", "d", "o">>),
        !.f["unidadenome"] = Str(<<"S", "u", "l">>),
        !.f["datahoraentradalead"] = Str(<<"2", "5", "/", "1", "2", "/", "2", "0", "2", "4", " ", "1", "0", ":", "0", "0">>)]

TNorte ==
    [EmptyItem EXCEPT
        !.f["codigo"] = Num(73),
        !.f["unidadenome"] = Str(<<"N", "o", "r", "t", "e">>),
        !.f["datahoraentradalead"] = Str(<<"2", "5", "/", "1", "2", "/", "2", "0", "2", "4", " ", "1", "1", ":", "0", "0">>),
        !.f["datahoraultimainteracao"] = Str(<<"2", "5", "/", "1", "2", "/", "2", "0", "2", "4", " ", "1", "1", ":", "1", "0">>)]

TNoTeam ==
    [EmptyItem EXCEPT
        !.f["codigo"] = Num(74),
        !.f["datahoraentradalead"] = Str(<<"2", "5", "/", "1", "2", "/", "2", "0", "2", "4", " ", "1", "2", ":", "0", "0">>)]

TEmptyTeam ==
    [EmptyItem EXCEPT
        !.f["codigo"] = Num(75),
        !.f["unidadenome"] = Str(<<>>),
        !.f["datahoraentradalead"] = Str(<<"2", "5", "/", "1", "2", "/", "2", "0", "2", "4", " ", "1", "2", ":", "3", "0">>)]

TConstructor ==
    [EmptyItem EXCEPT
        !.f["codigo"] = Num(76),
        !.f["situacao"] = Str(<<"V", "i", "s", "i", "t", "a">>),
        !.f["unidadenome"] = Str(<<"c", "o", "n", "s", "t", "r", "u", "c", "t", "o", "r">>),
        !.f["datahoraentradalead"] = Str(<<"2", "5", "/", "1", "2", "/", "2", "0", "2", "4", " ", "0", "8", ":", "0", "0">>)]

\* A raw lead of team 'Norte'.
TRawNorte ==
    [EmptyItem EXCEPT
        !.f["id"] = Num(77),
        !.f["time"] = Str(<<"N", "o", "r", "t", "e">>),
        !.f["data_criacao"] = Str(<<"2", "0", "2", "4", "-", "1", "2", "-", "2", "5", "T", "0", "8", ":", "3", "0", ":", "0", "0">>)]

\* Attendance records of the teams 'Sul' and 'Norte', of no team, of the
\* empty team, and of a team named as a property of Object.prototype.
TeamRecords == {TSulVisita, TSulAgendado, TNorte, TNoTeam, TEmptyTeam, TConstructor}

\* The lists of leads an endpoint may return for a list of attendance
\* records (and, for /api/proxy-leads-all, one raw lead).
TeamResponses(ep, ats, clock) ==
    {r.leads : r \in {x \in (IF ep = "proxy-leads" THEN ProxyLeadsTail(ats, clock)
                               ELSE ProxyLeadsAllTail(<<TRawNorte>>, ats, clock)) :
                         x.kind = "leads"}}

NotDerived == [done |-> FALSE, leads |-> <<>>, teams |-> {}, shown |-> <<>>, stats |-> <<>>]

InitTeams ==
    /\ \E ep \in Endpoints, ats \in SeqsUpTo(TeamRecords, MaxTeamLeads) :
          \E leads \in TeamResponses(ep, ats, now) :
             teamIn = [endpoint |-> ep, leads |-> leads]
    /\ teamOut = [p \in Pages |-> NotDerived]

\* Dashboard loads the leads of the endpoint and renders: the team buttons,
\* and for each button the leads its selection shows.
ApplyDashboardTeams ==
    /\ ~teamOut["dashboard"].done
    /\ LET leads == DashboardLeads(teamIn.leads, now, teamIn.endpoint = "proxy-leads-all")
       IN  teamOut' = [teamOut EXCEPT !["dashboard"] =
                          [done |-> TRUE, leads |-> leads, teams |-> teams(leads),
                           shown |-> [t \in teams(leads) |-> filteredLeads(leads, t)],
                           stats |-> <<>>]]
    /\ UNCHANGED teamIn

\* ReportsPage loads the leads of /api/proxy-leads and renders: teamStats.
ApplyTeamStats ==
    /\ teamIn.endpoint = "proxy-leads"
    /\ ~teamOut["reports"].done
    /\ LET leads == ReportsLeads(teamIn.leads, now)
       IN  teamOut' = [teamOut EXCEPT !["reports"] =
                          [done |-> TRUE, leads |-> leads, teams |-> {}, shown |-> <<>>,
                           stats |-> teamStats(leads)]]
    /\ UNCHANGED teamIn

\* ------------------------------------------------------------ page normalization under test

\* The normalization of fetchLeads of Dashboard applied to the lead that
\* /api/proxy-leads built from the record under test.  (Through JSON a field
\* that is undefined is absent and reads as undefined; null stays null.)
ApplyDashboardLead ==
    /\ normOut["mappedLeads"].done
    /\ ~pgOut["dashboard"].done
    /\ \E rnd \in RandomTexts :
          pgOut' = [pgOut EXCEPT !["dashboard"] =
                       Mapped(DashboardLead(normOut["mappedLeads"].lead, rnd, now, FALSE))]

\* The normalization of fetchLeads of ReportsPage applied to the same lead.
ApplyReportsLead ==
    /\ normOut["mappedLeads"].done
    /\ ~pgOut["reports"].done
    /\ \E rnd \in RandomTexts :
          pgOut' = [pgOut EXCEPT !["reports"] =
                       Mapped(ReportsLead(normOut["mappedLeads"].lead, rnd, now))]

\* ------------------------------------------------------------ CSV export

\* Array.prototype.join
RECURSIVE Join(_, _)
Join(parts, sep) ==
    IF parts = <<>> THEN <<>>
    ELSE IF Len(parts) = 1 THEN parts[1]
    ELSE parts[1] \o sep \o Join(Tail(parts), sep)

\* What join makes of an element: undefined and null give "".
ToText(v) ==
    CASE v.t = "str" -> v.s
      [] v.t = "num" -> NumToStr(v.n)
      [] OTHER -> <<>>

\* `"${v}"`
Quote(text) == <<"\"">> \o text \o <<"\"">>

InvalidDate == <<"I", "n", "v", "a", "l", "i", "d", " ", "D", "a", "t", "e">>

\* The locales of toLocaleString(): with a comma between date and time
\* ("25/12/2024, 10:00:00") and without ("25/12/2024 10:00:00").
Locales == {"comma", "plain"}

\* new Date(text).toLocaleString() in the locale
ToLocaleString(text, locale) ==
    LET b == StripZone(text)
    IN  IF GetTime(text) = NaN THEN InvalidDate
        ELSE SubSeq(b, 9, 10) \o <<"/">> \o SubSeq(b, 6, 7) \o <<"/">> \o SubSeq(b, 1, 4)
             \o (IF locale = "comma" THEN <<",", " ">> ELSE <<" ">>)
             \o SubSeq(b, 12, 19)

headers ==
    <<<<"I", "D">>, <<"D", "a", "t", "a", " ", "E", "n", "t", "r", "a", "d", "a">>, <<"N", "o", "m", "e">>, <<"T", "e", "l", "e", "f", "o", "n", "e">>,
      <<"E", "m", "a", "i", "l">>, <<"T", "i", "m", "e">>, <<"S", "t", "a", "t", "u", "s">>, <<"D", "a", "t", "a", " ", "I", "n", "t", "e", "r", "a", "ç", "ã", "o">>,
      <<"S", "L", "A", " ", "L", "a", "b", "e", "l">>, <<"S", "L", "A", " ", "C", "r", "í", "t", "i", "c", "o">>>>

\* The row of a lead
CsvRow(l, locale) ==
    LET sla == ReportsGetSLAInfo(l.data_entrada.s, l.primeira_interacao, RenderClock)
    IN  Join(<<ToText(l.id),
               ToLocaleString(l.data_entrada.s, locale),
               Quote(ToText(l.nome)),
               Quote(ToText(l.telefone)),
               ToText(l.email),
               Quote(ToText(l.time)),
               ToText(l.status),
               IF Truthy(l.primeira_interacao)
               THEN ToLocaleString(l.primeira_interacao.s, locale) ELSE <<>>,
               Quote(sla.label),
               IF sla.isLate THEN <<"S", "I", "M">> ELSE <<"N", "A", "O">>>>,
             <<",">>)

NothingExported == [done |-> TRUE, exported |-> FALSE, text |-> <<>>]
Exported(text) == [done |-> TRUE, exported |-> TRUE, text |-> text]

\* handleExportCSV: what it gives to download.
handleExportCSV(leads, locale) ==
    IF Len(leads) = 0 THEN NothingExported
    ELSE Exported(Join(<<Join(headers, <<",">>)>>
                       \o [i \in 1..Len(leads) |-> CsvRow(leads[i], locale)],
                       <<"\n">>))

\* ------------------------------------------------------------ CSV export under test

CsvNomes == {<<"A", "n", "a">>, <<"A", ",", "B">>, <<"A", "\"", "B">>}
CsvEmails == {<<>>, <<"a", "@", "x">>}
CsvStatuses == {<<"N", "o", "v", "o">>, <<"V", "i", "s", "i", "t", "a", ",", " ", "o", "k">>}
CsvEntradas == {<<"2", "0", "2", "4", "-", "1", "2", "-", "2", "5", "T", "1", "0", ":", "0", "0", ":", "0", "0">>, <<"c", "-", "b", "-", "a", "T", "0", "0", ":", "0", "0", ":", "0", "0">>}
CsvPrimeiras == {Null, Str(<<"2", "0", "2", "4", "-", "1", "2", "-", "2", "5", "T", "1", "0", ":", "3", "0", ":", "0", "0">>)}

\* The leads of the Reports page under test.
CsvLeads ==
    {Lead(Str(<<"7">>), Str(nome), Str(<<"1", "1", "9">>), Str(email), Str(status),
          Str(<<"S", "u", "l">>), Str(entrada), primeira, Site, Undef, NullItem) :
        nome \in CsvNomes, email \in CsvEmails, status \in CsvStatuses,
        entrada \in CsvEntradas, primeira \in CsvPrimeiras}

CsvPlain ==
    Lead(Str(<<"8">>), Str(<<"A", "n", "a">>), Str(<<"1", "1", "8">>), Str(<<"a", "@", "x">>), Str(<<"N", "o", "v", "o">>),
         Str(<<"S", "u", "l">>), Str(<<"2", "0", "2", "4", "-", "1", "2", "-", "2", "5", "T", "1", "0", ":", "0", "0", ":", "0", "0">>), Null, Site, Undef, NullItem)

CsvLists == {<<>>} \cup {<<l>> : l \in CsvLeads} \cup {<<CsvPlain, l>> : l \in CsvLeads}

NotExported == [done |-> FALSE, exported |-> FALSE, text |-> <<>>]

InitCsv ==
    /\ csvIn \in [leads : CsvLists, locale : Locales]
    /\ csvOut = NotExported

\* onClick={handleExportCSV} of the button 'Exportar CSV'
ExportCsv ==
    /\ ~csvOut.done
    /\ csvOut' = handleExportCSV(csvIn.leads, csvIn.locale)
    /\ UNCHANGED csvIn

\* ------------------------------------------------------------ specifications

IdleRequest ==
    /\ endpoint = "proxy-leads"
    /\ apiKey = Undef
    /\ now \in NowValues
    /\ pc = "idle"
    /\ calls = [c \in CallIds |-> IdleCall]
    /\ requests = <<>>
    /\ response = NoResponse

IdleDate == dateIn = Undef /\ dateOut = [f \in Normalizers |-> Pending]

IdleExtract == exIn = FalsyPayload /\ exOut = [e \in Extractors |-> NotExtracted]

IdleNorm == normIn = EmptyItem /\ normOut = [f \in LeadNormalizers |-> NotMapped]

IdleSla ==
    /\ slaIn = [entry |-> <<>>, first |-> Undef, clock |-> 0]
    /\ slaOut = [p \in SlaPages |-> NotComputed]

IdleSort == sortIn = <<>> /\ sortOut = [e \in Endpoints |-> NoResponse]

IdlePage ==
    /\ page = "none"
    /\ upstream = [ats |-> <<>>, brutos |-> <<>>]
    /\ dash = DashboardInitial
    /\ rep = ReportsInitial
    /\ fetchLog = <<>>
    /\ lastEvent = "none"

IdleCsv == csvIn = [leads |-> <<>>, locale |-> "plain"] /\ csvOut = NotExported

IdlePageNorm == pgOut = [p \in Pages |-> NotMapped]

IdleTeams ==
    /\ teamIn = [endpoint |-> "proxy-leads", leads |-> <<>>]
    /\ teamOut = [p \in Pages |-> NotDerived]

IdleUi == IdleSla /\ IdleSort /\ IdlePage /\ IdleCsv /\ IdlePageNorm /\ IdleTeams

Init == InitRequest /\ IdleDate /\ IdleExtract /\ IdleNorm /\ IdleUi

Next ==
    \/ GetNoKey /\ UNCHANGED <<dateVars, extractVars, normVars, uiVars>>
    \/ GetStart /\ UNCHANGED <<dateVars, extractVars, normVars, uiVars>>
    \/ \E c \in CallIds, failure \in Failures :
          AtendimentoFails(c, failure) /\ UNCHANGED <<dateVars, extractVars, normVars, uiVars>>
    \/ \E c \in CallIds, body \in Payloads(MaxItems - Received) :
          AtendimentoAnswers(c, body) /\ UNCHANGED <<dateVars, extractVars, normVars, uiVars>>
    \/ \E failure \in Failures :
          BrutosTurn(failure, FalsyPayload) /\ UNCHANGED <<dateVars, extractVars, normVars, uiVars>>
    \/ \E body \in Payloads(MaxItems - Received) :
          BrutosTurn("ok", body) /\ UNCHANGED <<dateVars, extractVars, normVars, uiVars>>
    \/ FinishProxyLeads /\ UNCHANGED <<dateVars, extractVars, normVars, uiVars>>
    \/ FinishProxyLeadsAll /\ UNCHANGED <<dateVars, extractVars, normVars, uiVars>>

\* One request to a proxy endpoint.
Spec == Init /\ [][Next]_vars

InitDateSpec == IdleRequest /\ InitDate /\ IdleExtract /\ IdleNorm /\ IdleUi

NextDate ==
    \/ ApplyParseDate /\ UNCHANGED <<requestVars, extractVars, normVars, uiVars>>
    \/ ApplyParseImoviewDate /\ UNCHANGED <<requestVars, extractVars, normVars, uiVars>>
    \/ ApplyReportsParseImoviewDate /\ UNCHANGED <<requestVars, extractVars, normVars, uiVars>>

\* The Date Normalizers applied to one input.
SpecDate == InitDateSpec /\ [][NextDate]_vars

InitExtractSpec == IdleRequest /\ IdleDate /\ InitExtract /\ IdleNorm /\ IdleUi

NextExtract ==
    \/ ApplyExtractList /\ UNCHANGED <<requestVars, dateVars, normVars, uiVars>>
    \/ ApplyExtractListAll /\ UNCHANGED <<requestVars, dateVars, normVars, uiVars>>

\* The List Extractors applied to one payload.
SpecExtract == InitExtractSpec /\ [][NextExtract]_vars

InitNormSpec == IdleRequest /\ IdleDate /\ IdleExtract /\ InitNorm /\ IdleUi

NextNorm ==
    \/ ApplyMappedLead /\ UNCHANGED <<requestVars, dateVars, extractVars, uiVars>>
    \/ ApplyMapAtendimento /\ UNCHANGED <<requestVars, dateVars, extractVars, uiVars>>
    \/ ApplyMapBruto /\ UNCHANGED <<requestVars, dateVars, extractVars, uiVars>>

\* The Lead Normalizers applied to one upstream record.
SpecNorm == InitNormSpec /\ [][NextNorm]_vars

InitSlaSpec ==
    IdleRequest /\ IdleDate /\ IdleExtract /\ IdleNorm /\ InitSla /\ IdleSort /\ IdlePage
    /\ IdleCsv /\ IdlePageNorm /\ IdleTeams

NextSla ==
    \/ ApplyGetSLAInfo
          /\ UNCHANGED <<requestVars, dateVars, extractVars, normVars, sortVars, pageVars,
                      csvVars, pageNormVars, teamVars>>
    \/ ApplyReportsGetSLAInfo
          /\ UNCHANGED <<requestVars, dateVars, extractVars, normVars, sortVars, pageVars,
                      csvVars, pageNormVars, teamVars>>

\* getSLAInfo of both pages applied to one lead at one time.
SpecSla == InitSlaSpec /\ [][NextSla]_vars

InitSortSpec ==
    IdleRequest /\ IdleDate /\ IdleExtract /\ IdleNorm /\ IdleSla /\ InitSort /\ IdlePage
    /\ IdleCsv /\ IdlePageNorm /\ IdleTeams

NextSort ==
    \/ ApplyProxyLeadsTail
          /\ UNCHANGED <<requestVars, dateVars, extractVars, normVars, slaVars, pageVars,
                      csvVars, pageNormVars, teamVars>>
    \/ ApplyProxyLeadsAllTail
          /\ UNCHANGED <<requestVars, dateVars, extractVars, normVars, slaVars, pageVars,
                      csvVars, pageNormVars, teamVars>>

\* Both endpoints map and sort one list of upstream records.
SpecSort == InitSortSpec /\ [][NextSort]_vars

InitPageSpec ==
    IdleRequest /\ IdleDate /\ IdleExtract /\ IdleNorm /\ IdleSla /\ IdleSort /\ InitPage
    /\ IdleCsv /\ IdlePageNorm /\ IdleTeams

otherVars ==
    <<requestVars, dateVars, extractVars, normVars, slaVars, sortVars, csvVars, pageNormVars, teamVars>>

NextPage ==
    \/ DashMount /\ UNCHANGED otherVars
    \/ DashRefresh /\ UNCHANGED otherVars
    \/ DashRetry /\ UNCHANGED otherVars
    \/ DashSelectAtendimentos /\ UNCHANGED otherVars
    \/ DashSelectGeral /\ UNCHANGED otherVars
    \/ \E team \in teams(currentLeads) : DashSelectTeam(team) /\ UNCHANGED otherVars
    \/ DashFetchDone /\ UNCHANGED otherVars
    \/ DashFetchThrows /\ UNCHANGED otherVars
    \/ RepMount /\ UNCHANGED otherVars
    \/ RepFetchDone /\ UNCHANGED otherVars
    \/ RepFetchThrows /\ UNCHANGED otherVars

\* One visit of the Dashboard or of the Reports page.
SpecPage == InitPageSpec /\ [][NextPage]_vars

InitCsvSpec ==
    IdleRequest /\ IdleDate /\ IdleExtract /\ IdleNorm /\ IdleSla /\ IdleSort /\ IdlePage
    /\ InitCsv /\ IdlePageNorm /\ IdleTeams

NextCsv ==
    ExportCsv /\ UNCHANGED <<requestVars, dateVars, extractVars, normVars, slaVars, sortVars,
                             pageVars, pageNormVars, teamVars>>

\* One click on 'Exportar CSV' of the Reports page.
SpecCsv == InitCsvSpec /\ [][NextCsv]_vars

InitPageNormSpec == IdleRequest /\ IdleDate /\ IdleExtract /\ InitNorm /\ IdleUi

NextPageNorm ==
    \/ ApplyMappedLead /\ UNCHANGED <<requestVars, dateVars, extractVars, uiVars>>
    \/ ApplyDashboardLead
          /\ UNCHANGED <<requestVars, dateVars, extractVars, normVars, slaVars, sortVars,
                         pageVars, csvVars, teamVars>>
    \/ ApplyReportsLead
          /\ UNCHANGED <<requestVars, dateVars, extractVars, normVars, slaVars, sortVars,
                         pageVars, csvVars, teamVars>>

\* /api/proxy-leads maps one upstream record and both pages normalize the
\* lead it built.
SpecPageNorm == InitPageNormSpec /\ [][NextPageNorm]_vars

InitTeamsSpec ==
    IdleRequest /\ IdleDate /\ IdleExtract /\ IdleNorm /\ IdleSla /\ IdleSort /\ IdlePage
    /\ IdleCsv /\ IdlePageNorm
    /\ InitTeams

NextTeams ==
    \/ ApplyDashboardTeams
          /\ UNCHANGED <<requestVars, dateVars, extractVars, normVars, slaVars, sortVars,
                         pageVars, csvVars, pageNormVars>>
    \/ ApplyTeamStats
          /\ UNCHANGED <<requestVars, dateVars, extractVars, normVars, slaVars, sortVars,
                         pageVars, csvVars, pageNormVars>>

\* Both pages derive their team data from one list of leads of an endpoint.
SpecTeams == InitTeamsSpec /\ [][NextTeams]_vars

\* ------------------------------------------------------------ properties

\* C1: whenever the API key is configured, the endpoint answers 200 with a
\* { leads } body whatever the upstream calls do, and it answers 500 only
\* when the key is missing.
C1_Always200WithKey ==
    pc = "done" =>
        /\ Truthy(apiKey) => (response.status = 200 /\ response.kind = "leads")
        /\ response.status = 500 => ~Truthy(apiKey)

\* The lead the endpoint builds from a record of call c.
LeadFor(c, item, rnd) ==
    IF endpoint = "proxy-leads" THEN mappedLead(item, rnd, now)
    ELSE IF c = "brutos" THEN mapBruto(item, rnd, now)
    ELSE mapAtendimento(item, rnd, now)

\* The list the endpoint obtained from call c: what its extractor finds in
\* the body the call answered.
ObtainedList(c) ==
    IF endpoint = "proxy-leads" THEN extractList(calls[c].body)
    ELSE extractListAll(calls[c].body)

\* C2: a failed upstream call contributes an empty list, and every record
\* obtained from the other calls of the request has its lead in the
\* response, for every combination of failures and every order of
\* completion.
C2_FailureIsolated ==
    (pc = "done" /\ Truthy(apiKey)) =>
        \A c \in CallsOf(endpoint) :
            /\ calls[c].outcome \in Failures => calls[c].result = ArrayPayload(<<>>)
            /\ calls[c].outcome = "ok" =>
                  \A i \in 1..Len(ObtainedList(c)) :
                     ObtainedList(c)[i].kind = "obj" =>
                        \E j \in 1..Len(response.leads), rnd \in RandomTexts :
                           response.leads[j] = LeadFor(c, ObtainedList(c)[i], rnd)

\* C3: with no API key (unset or empty) the endpoint answers 500 with an
\* { error } body and issues no upstream request.
C3_NoKeyNoRequest ==
    ~Truthy(apiKey) =>
        /\ requests = <<>>
        /\ pc # "awaiting"
        /\ \A c \in CallIds : calls[c].st = "idle"
        /\ pc = "done" => (response.status = 500 /\ response.kind = "error")

\* C3 witness: a request with an empty API key has been answered.
C3_Witness ==
    /\ apiKey = Str(<<>>)
    /\ pc = "done"
    /\ response = ErrorResponse
    /\ requests = <<>>

\* C4: every lead of a response has a data_entrada that is a valid
\* timestamp, whatever the upstream date fields hold.
C4_EntradaValid ==
    (pc = "done" /\ response.kind = "leads") =>
        \A i \in 1..Len(response.leads) :
            /\ response.leads[i].data_entrada.t = "str"
            /\ ValidTimestamp(response.leads[i].data_entrada.s)

\* C5: every lead of a response has a primeira_interacao that is absent
\* (undefined or null) or a valid timestamp.
C5_PrimeiraAbsentOrValid ==
    (pc = "done" /\ response.kind = "leads") =>
        \A i \in 1..Len(response.leads) :
            \/ response.leads[i].primeira_interacao.t \in {"undef", "null"}
            \/ /\ response.leads[i].primeira_interacao.t = "str"
               /\ ValidTimestamp(response.leads[i].primeira_interacao.s)

\* C6: every date normalizer returns an input that is already in ISO form
\* (YYYY-MM-DDT...) unchanged.
C6_IsoUnchanged ==
    (dateIn.t = "str" /\ IsoRegex(dateIn.s)) =>
        \A f \in Normalizers : dateOut[f] # Pending => dateOut[f] = dateIn

\* Whether the text is "DD/MM/YYYY", optionally followed by " HH:mm".
IsDMYForm(s) ==
    /\ Len(s) \in {10, 16}
    /\ \A i \in {1, 2, 4, 5, 7, 8, 9, 10} : s[i] \in Digits
    /\ s[3] = "/" /\ s[6] = "/"
    /\ Len(s) = 16 =>
          /\ s[11] = " " /\ s[14] = ":"
          /\ \A i \in {12, 13, 15, 16} : s[i] \in Digits

\* Whether the text is empty, whitespace only, or garbage: neither in ISO
\* form nor in the form DD/MM/YYYY[ HH:mm].
IsGarbage(s) == Trim(s) = <<>> \/ (~IsoRegex(s) /\ ~IsDMYForm(s))

\* C7: the Date Normalizer returns null for every empty, whitespace-only or
\* garbage input, and never returns a string that is not a valid timestamp.
C7_GarbageGivesNull ==
    dateIn.t = "str" =>
        \A f \in {"parseDate", "parseImoviewDate"} :
            dateOut[f] # Pending =>
                /\ IsGarbage(dateIn.s) => dateOut[f] = Null
                /\ dateOut[f] # Null =>
                      (dateOut[f].t = "str" /\ ValidTimestamp(dateOut[f].s))

\* C8: for every input DD/MM/YYYY HH:mm the Date Normalizer returns
\* YYYY-MM-DDTHH:mm:00 with the same day, month, year, hour and minute, and
\* for every input DD/MM/YYYY it returns YYYY-MM-DDT00:00:00.
C8_ReordersDayMonthYear ==
    \A f \in Normalizers :
        dateOut[f] # Pending =>
            \A d \in Days, m \in Months, y \in Years :
                /\ dateIn = Str(DateText(d, m, y)) =>
                      dateOut[f] = Str(IsoText(d, m, y, <<"0", "0">>, <<"0", "0">>))
                /\ \A hh \in Hours, mi \in Minutes :
                      dateIn = Str(DateTimeText(d, m, y, hh, mi)) =>
                         dateOut[f] = Str(IsoText(d, m, y, hh, mi))

\* C8 witness: "25/12/2024 14:30" has been normalized by every normalizer,
\* and parseDate gave "2024-12-25T14:30:00".
C8_Witness ==
    /\ dateIn = Str(<<"2", "5", "/", "1", "2", "/", "2", "0", "2", "4", " ",
                      "1", "4", ":", "3", "0">>)
    /\ \A f \in Normalizers : dateOut[f] # Pending
    /\ dateOut["parseDate"] =
          Str(<<"2", "0", "2", "4", "-", "1", "2", "-", "2", "5", "T",
                "1", "4", ":", "3", "0", ":", "0", "0">>)

\* The wrapper keys in the order of the claim.
KeyOrder == <<"lista", "leads", "atendimentos", "items", "resultado", "data">>

\* The list the claim says the extractor returns.
ExpectedList(data) ==
    IF data.kind = "array" THEN data.list
    ELSE LET hits == {i \in 1..Len(KeyOrder) : data.w[KeyOrder[i]].isArray}
         IN  IF data.kind # "obj" \/ hits = {} THEN <<>>
             ELSE data.w[KeyOrder[CHOOSE i \in hits : \A j \in hits : i <= j]].list

\* C9: the List Extractor of each endpoint returns the payload itself when
\* it is an array, else the array under the first of lista, leads,
\* atendimentos, items, resultado, data that holds one, else the empty list.
C9_ExtractsFirstArray ==
    \A e \in Extractors : exOut[e].done => exOut[e].list = ExpectedList(exIn)

\* The first non-empty string of the chain nested-lead telefone1,
\* nested-lead celular, top-level telefone, top-level phone; "" when none.
FirstPhone(item) ==
    LET chain == <<LeadField(item, "telefone1"), LeadField(item, "celular"),
                   Field(item, "telefone"), Field(item, "phone")>>
        hits == {i \in 1..4 : chain[i].t = "str" /\ chain[i].s # <<>>}
    IN  IF hits = {} THEN Str(<<>>)
        ELSE chain[CHOOSE i \in hits : \A j \in hits : i <= j]

\* C10: in both Lead Normalizer variants the phone is the first non-empty
\* string of the chain nested-lead telefone1, nested-lead celular,
\* top-level telefone, top-level phone, and "" when there is none.
C10_PhoneChain ==
    \A f \in {"mapAtendimento", "mapBruto"} :
        normOut[f].done => normOut[f].lead.telefone = FirstPhone(normIn)

\* The value the fallback chain of upstream fields gives: its first
\* non-empty string, else the default.
FirstOrDefault(item, chain, default) ==
    LET hits == {i \in 1..Len(chain) :
                    Field(item, chain[i]).t = "str" /\ Field(item, chain[i]).s # <<>>}
    IN  IF hits = {} THEN default
        ELSE Field(item, chain[CHOOSE i \in hits : \A j \in hits : i <= j])

\* Whether the record is an object whose fields are each missing, null or a
\* string.
IsStringRecord(item) ==
    /\ item.kind = "obj"
    /\ \A k \in TopFields \ {"codigo", "id"} : item.f[k].t \in {"undef", "null", "str"}

\* C11: for every upstream record that is an object, with any of its fields
\* missing or empty, each normalizer of both endpoints completes and gives
\* status "Novo", time "Geral" and origem "Site" exactly when the upstream
\* field it reads for it is absent or empty, and that field's string
\* otherwise.
C11_DefaultsWhenAbsent ==
    IsStringRecord(normIn) =>
        /\ ~Throws(normIn)
        /\ \A n \in {"mappedLeads", "mapAtendimento"} :
              normOut[n].done =>
                 /\ normOut[n].lead.status = FirstOrDefault(normIn, <<"situacao">>, Novo)
                 /\ normOut[n].lead.time = FirstOrDefault(normIn, <<"unidadenome">>, Geral)
                 /\ normOut[n].lead.origem = FirstOrDefault(normIn, <<"midia">>, Site)
        /\ normOut["mapBruto"].done =>
              /\ normOut["mapBruto"].lead.status = FirstOrDefault(normIn, <<"status">>, Novo)
              /\ normOut["mapBruto"].lead.time =
                    FirstOrDefault(normIn, <<"unidadenome", "time">>, Geral)
              /\ normOut["mapBruto"].lead.origem = FirstOrDefault(normIn, <<"origem">>, Site)

\* A record whose situacao is the empty string and whose midia is set has
\* been normalized by all three normalizers.
C11_Witness ==
    /\ normIn \in DefaultItems
    /\ Field(normIn, "situacao") = Str(<<>>)
    /\ Field(normIn, "status") = Undef
    /\ Field(normIn, "midia").s # <<>>
    /\ \A n \in LeadNormalizers : normOut[n].done
    /\ normOut["mapAtendimento"].lead.status = Novo

\* C12: every normalized lead has a non-empty id: the upstream identifier
\* (codigo for attendance records; id, then codigo, for raw leads) when the
\* record has one, a synthesized value only when it has none; never
\* undefined, null or the empty string.
C12_IdNonEmpty ==
    \A n \in LeadNormalizers :
        normOut[n].done =>
           /\ normOut[n].lead.id.t \in {"str", "num"}
           /\ normOut[n].lead.id # Str(<<>>)

\* The wait of the lead under test in whole minutes: (first interaction
\* time if present, else now) minus entry time, floored; NaN when a time is
\* no instant.
WaitMinutes ==
    LET entryTime == GetTimeMs(slaIn.entry)
        endTime == IF Truthy(slaIn.first) THEN GetTimeMs(slaIn.first.s) ELSE Number(slaIn.clock)
    IN  IF entryTime.nan \/ endTime.nan THEN NotANumber
        ELSE Number((endTime.v - entryTime.v) \div 60000)

C16_ExactlyTwoCalls ==
    (Truthy(apiKey) /\ pc \in {"awaiting", "done"}) =>
        /\ Len(requests) = 2
        /\ {requests[i].finalidade : i \in 1..Len(requests)} = {1, 2}
        /\ \A c \in CallIds : calls[c].st # "idle" <=> c \in {"aluguel", "venda"}

\* Whether lead a entered earlier than lead b.
Earlier(a, b) ==
    /\ GetTime(a.data_entrada.s) # NaN
    /\ GetTime(b.data_entrada.s) # NaN
    /\ GetTime(a.data_entrada.s) < GetTime(b.data_entrada.s)

\* C17: the list each endpoint returns is sorted by entry time, most recent
\* first, for every upstream input, malformed dates included: no lead comes
\* before a lead that entered later than it (in particular no two adjacent
\* leads are in the wrong order).
C17_SortedByEntry ==
    \A e \in Endpoints :
        sortOut[e].kind = "leads" =>
           \A i, j \in 1..Len(sortOut[e].leads) :
              i < j => ~Earlier(sortOut[e].leads[i], sortOut[e].leads[j])

\* The leads the Dashboard displays.
DisplayedLeads == filteredLeads(currentLeads, dash.selectedTeam)

\* Whether the lead has no first interaction.
NoFirstInteraction(l) == l.primeira_interacao.t \in {"undef", "null"}

\* An identifier as a text.
IdText(v) == IF v.t = "num" THEN NumToStr(v.n) ELSE v.s

\* The identifiers of the CRM's attendance records that carry no interaction
\* date, and of its raw leads.
NoInteractionIds ==
    {IdText(Field(upstream.ats[i], "codigo")) :
        i \in {j \in 1..Len(upstream.ats) :
                 /\ upstream.ats[j].kind = "obj"
                 /\ ~Truthy(Field(upstream.ats[j], "datahoraultimainteracao"))
                 /\ ~Truthy(Field(upstream.ats[j], "primeira_interacao"))}}

RawIds == {IdText(Field(upstream.brutos[i], "id")) : i \in 1..Len(upstream.brutos)}

\* C14: a lead with no primeira_interacao is always pendente: the pendentes
\* KPI of the displayed leads is the number of them without a first
\* interaction, the pending table lists exactly those, and a displayed lead
\* that comes from an attendance record without interaction date, or from a
\* raw lead, is among them.
C14_PendenteWithoutInteraction ==
    (page = "dashboard" /\ DashboardView = "main") =>
        LET shown == DisplayedLeads
            table == pendingTable(shown)
            without == {i \in 1..Len(shown) : NoFirstInteraction(shown[i])}
        IN  /\ kpis(shown).pendentes = Cardinality(without)
            /\ Len(table) = Cardinality(without)
            /\ \A i \in 1..Len(shown) :
                  (i \in without) <=> (\E k \in 1..Len(table) : table[k] = shown[i])
            /\ \A i \in 1..Len(shown) :
                  IdText(shown[i].id) \in (NoInteractionIds \cup RawIds) => i \in without

\* The Dashboard shows the general leads, among them a raw lead and an
\* attendance lead without first interaction, both counted as pendentes,
\* and an attendance lead with one.
C14_Witness ==
    /\ page = "dashboard" /\ DashboardView = "main"
    /\ dash.dataMode = "geral"
    /\ kpis(DisplayedLeads).pendentes = 2
    /\ Len(DisplayedLeads) = 3
    /\ \E i \in 1..Len(DisplayedLeads) : DisplayedLeads[i].tem_atendimento = Bool(FALSE)

\* The number of the leads whose lower-cased status contains "visita".
VisitaCount(leads) ==
    Cardinality({i \in 1..Len(leads) : Includes(ToLowerCase(leads[i].status.s), Visita)})

\* agendamentos / total as a percentage; a zero percentage when total is 0.
IsConversion(text, agendamentos, total) ==
    IF total = 0 THEN text \in {<<"0", "%">>, <<"0", ".", "0", "%">>}
    ELSE text = PercentText(agendamentos, total)

\* C15: wherever the UI counts agendamentos (the Dashboard's KPIs, the
\* Reports page's team statistics) the count is the number of leads whose
\* status contains "visita", case-insensitively; atendimento is the number
\* whose lower-cased status is "em atendimento" or "contato feito"; total
\* is the number of leads considered; conversion is agendamentos / total as
\* a percentage, zero when total is 0; no count exceeds total.
C15_KpiCounts ==
    /\ (page = "dashboard" /\ DashboardView = "main") =>
          LET shown == DisplayedLeads
              k == kpis(shown)
          IN  /\ k.totalLeads = Len(shown)
              /\ k.agendamentos = VisitaCount(shown)
              /\ k.atendimento =
                    Cardinality({i \in 1..Len(shown) :
                       ToLowerCase(shown[i].status.s) \in {EmAtendimento, ContatoFeito}})
              /\ IsConversion(k.conversao, VisitaCount(shown), Len(shown))
              /\ k.agendamentos <= k.totalLeads
              /\ k.atendimento <= k.totalLeads
              /\ k.pendentes <= k.totalLeads
    /\ (page = "reports" /\ ReportsView = "main") =>
          LET stats == teamStats(rep.leads)
          IN  \A i \in 1..Len(stats) :
                 LET mine == SelectSeq(rep.leads, LAMBDA l : TeamOf(l) = stats[i].name)
                 IN  /\ stats[i].total = Len(mine)
                     /\ stats[i].agendamentos = VisitaCount(mine)
                     /\ IsConversion(stats[i].efficiency, VisitaCount(mine), Len(mine))
                     /\ stats[i].agendamentos <= stats[i].total

\* C18: after a failed fetch of a page (a response that is not OK, or a
\* fetch that threw) the page is not loading, shows a non-empty error
\* message in its error panel, and the panel offers a retry.
C18_FailedFetchShowsRetry ==
    lastEvent = "fetchFailed" =>
        /\ page = "dashboard" =>
              /\ ~dash.loading
              /\ dash.error.t = "str" /\ dash.error.s # <<>>
              /\ DashboardView = "error"
              /\ "retry" \in DashboardOffers
        /\ page = "reports" =>
              /\ ~rep.loading
              /\ rep.error.t = "str" /\ rep.error.s # <<>>
              /\ ReportsView = "error"
              /\ "retry" \in ReportsOffers

\* C19: a fetch of a proxy endpoint is issued only by the step of the
\* initial page load or of a user action (refresh, retry, selecting 'Leads
\* gerais'), one fetch per step: never by the completion of a fetch or
\* another change of state; and the initial load of the Dashboard issues
\* exactly one fetch, of /api/proxy-leads.
C19_FetchOnlyOnLoadOrUserAction ==
    [][/\ fetchLog' # fetchLog =>
             /\ Len(fetchLog') = Len(fetchLog) + 1
             /\ SubSeq(fetchLog', 1, Len(fetchLog)) = fetchLog
             /\ lastEvent' \in {"load", "refresh", "retry", "geral"}
             /\ fetchLog'[Len(fetchLog')].cause = lastEvent'
       /\ (~dash.mounted /\ dash'.mounted) =>
             fetchLog' = <<[page |-> "dashboard", url |-> ProxyLeadsUrl, cause |-> "load"]>>
      ]_vars

\* The Dashboard has issued its fetch of the load and, on the selection of
\* 'Leads gerais', a fetch of /api/proxy-leads-all, which has been answered.
C19_Witness ==
    /\ page = "dashboard"
    /\ Len(fetchLog) = 2
    /\ fetchLog[1].cause = "load" /\ fetchLog[1].url = ProxyLeadsUrl
    /\ fetchLog[2].cause = "geral" /\ fetchLog[2].url = ProxyLeadsAllUrl
    /\ lastEvent = "fetchOk"

\* The k-th smallest element of a set of positions.
NthPosition(positions, k) ==
    CHOOSE x \in positions : Cardinality({y \in positions : y < x}) = k - 1

\* The pieces of a text between the given separator positions.
SplitAt(text, seps) ==
    LET cuts == {0} \cup seps \cup {Len(text) + 1}
    IN  [k \in 1..(Cardinality(seps) + 1) |->
            SubSeq(text, NthPosition(cuts, k) + 1, NthPosition(cuts, k + 1) - 1)]

\* The lines of a text.
CsvLines(text) == SplitAt(text, {i \in 1..Len(text) : text[i] = "\n"})

\* The fields of a CSV row: split on the commas outside double quotes.
CsvFields(row) ==
    SplitAt(row, {i \in 1..Len(row) :
                    /\ row[i] = ","
                    /\ Cardinality({j \in 1..(i - 1) : row[j] = "\""}) % 2 = 0})

\* Whether the field is enclosed in double quotes.
IsQuoted(field) == Len(field) >= 2 /\ field[1] = "\"" /\ field[Len(field)] = "\""

\* C20: the CSV export produces the fixed header row of 10 columns and one
\* row per lead; every data row splits on commas, respecting double-quoted
\* fields, into exactly 10 fields, whatever the names, e-mails, statuses and
\* teams contain; the string-valued fields (name, phone, e-mail, team,
\* status) are enclosed in double quotes; with no lead nothing is exported.
C20_CsvTenColumns ==
    csvOut.done =>
        IF Len(csvIn.leads) = 0 THEN ~csvOut.exported
        ELSE /\ csvOut.exported
             /\ LET lines == CsvLines(csvOut.text)
                IN  /\ Len(lines) = Len(csvIn.leads) + 1
                    /\ CsvFields(lines[1]) = headers
                    /\ \A i \in 2..Len(lines) :
                          /\ Len(CsvFields(lines[i])) = 10
                          /\ \A k \in {3, 4, 5, 6, 7} : IsQuoted(CsvFields(lines[i])[k])

PageLeadFields ==
    {"id", "nome", "telefone", "email", "status", "time", "data_entrada", "origem",
     "primeira_interacao"}

\* C21: for every record /api/proxy-leads returns, the lead the Reports
\* page builds and the lead fetchLeads of the Dashboard builds have the same
\* id, nome, telefone, email, status, time, data_entrada and origem, and
\* the same presence and value of primeira_interacao.
C21_SameNormalization ==
    (pgOut["dashboard"].done /\ pgOut["reports"].done) =>
        \A k \in PageLeadFields : pgOut["dashboard"].lead[k] = pgOut["reports"].lead[k]

\* C22: on the Dashboard at most one fetch is in flight at any time and,
\* once the mount effect has run, loading is true exactly while a fetch is
\* in flight: no refresh, retry, mode switch or team selection starts
\* fetchLeads or fetchLeadsAll while another fetch has not completed.
C22_OneFetchInFlight ==
    page = "dashboard" =>
        /\ dash.inFlight <= 1
        /\ dash.mounted => (dash.loading <=> dash.inFlight = 1)
        /\ (dash.inFlight = 1) <=> (dash.fetching # "none")

\* A user action has started a fetch after an earlier one completed.
C22_Witness ==
    /\ page = "dashboard"
    /\ dash.inFlight = 1
    /\ dash.loading
    /\ Len(fetchLog) >= 2
    /\ lastEvent \in {"refresh", "retry", "geral"}

\* The URL of the dataset of a data mode.
UrlOfMode(mode) == IF mode = "geral" THEN ProxyLeadsAllUrl ELSE ProxyLeadsUrl

\* C23: the refresh and retry actions of the Dashboard fetch the dataset of
\* the current data mode (after fetchLeadsAll fails, retry requests
\* /api/proxy-leads-all again), and a load that completes successfully while
\* dataMode is 'geral' was a fetch of /api/proxy-leads-all and stored its
\* result in leadsAll.
C23_RefetchCurrentMode ==
    [][page = "dashboard" =>
          /\ (Len(fetchLog') = Len(fetchLog) + 1 /\ lastEvent' \in {"refresh", "retry"}) =>
                fetchLog'[Len(fetchLog')].url = UrlOfMode(dash.dataMode)
          /\ (dash.inFlight = 1 /\ dash'.inFlight = 0 /\ lastEvent' = "fetchOk"
               /\ dash.dataMode = "geral") =>
                /\ fetchLog[Len(fetchLog)].url = ProxyLeadsAllUrl
                /\ dash'.leads = dash.leads]_vars

\* The unit a page's label ends with.
SlaUnit(p) == IF p = "dashboard" THEN <<"m", "i", "n">> ELSE <<"m">>

\* C27: the SLA label is consistent with the wait, for every pair of entry
\* time and end time, an end earlier than the entry included: a label of
\* hours and minutes has its minutes in 0..59 and hours*60 + minutes equal to
\* the wait in whole minutes, and a label of minutes only is printed for a
\* wait in 0..59, which it shows.
C27_LabelMatchesWait ==
    \A p \in SlaPages :
        (slaOut[p].done /\ ~WaitMinutes.nan) =>
            LET prefix == IF Truthy(slaIn.first) THEN AtendidoEm ELSE EsperandoHa
            IN  \/ \E m \in 0..59 :
                      /\ WaitMinutes.v = m
                      /\ slaOut[p].label = prefix \o IntText(m) \o SlaUnit(p)
                \/ \E h \in 0..24, m \in 0..59 :
                      /\ WaitMinutes.v = h * 60 + m
                      /\ slaOut[p].label =
                            prefix \o IntText(h) \o <<"h", " ">> \o IntText(m) \o SlaUnit(p)

\* The lists a successful fetch of the URL may store.
LoadedLists(url) ==
    {DashboardLeads(r.leads, now, url = ProxyLeadsAllUrl) :
        r \in {x \in PageResponses(url) : x.kind = "leads"}}

\* C24: a fetch of the Dashboard changes no lead state when it starts, and
\* when it fails leads, leadsAll, selectedTeam and dataMode keep the values
\* they had before the fetch; a successful fetch replaces exactly the list
\* it loads (leads for fetchLeads, leadsAll for fetchLeadsAll) and leaves
\* the other list, selectedTeam and dataMode untouched.
C24_FailedFetchKeepsLeads ==
    [][page = "dashboard" =>
          /\ dash'.inFlight > dash.inFlight =>
                /\ dash'.leads = dash.leads
                /\ dash'.leadsAll = dash.leadsAll
                /\ dash'.selectedTeam = dash.selectedTeam
                /\ dash'.fetching = "fetchLeads" => dash'.dataMode = dash.dataMode
          /\ dash'.inFlight < dash.inFlight =>
                /\ dash'.selectedTeam = dash.selectedTeam
                /\ dash'.dataMode = dash.dataMode
                /\ lastEvent' = "fetchFailed" =>
                      dash'.leads = dash.leads /\ dash'.leadsAll = dash.leadsAll
                /\ lastEvent' = "fetchOk" =>
                      IF dash.fetching = "fetchLeadsAll"
                      THEN /\ dash'.leads = dash.leads
                           /\ dash'.leadsAll \in LoadedLists(ProxyLeadsAllUrl)
                      ELSE /\ dash'.leadsAll = dash.leadsAll
                           /\ dash'.leads \in LoadedLists(ProxyLeadsUrl)]_vars

\* A fetch has failed on a Dashboard that holds leads.
C24_Witness ==
    /\ page = "dashboard"
    /\ lastEvent = "fetchFailed"
    /\ Len(fetchLog) >= 2
    /\ Len(dash.leads) > 0
    /\ Truthy(dash.error)

\* C25: whenever the Dashboard shows its panels, the selected team is
\* 'Todos' or a team of the team list of the displayed dataset, after any
\* sequence of team selections, data-mode switches and refreshes: the table
\* is never filtered by a team that has no button.
C25_SelectedTeamListed ==
    (page = "dashboard" /\ DashboardView = "main") =>
        dash.selectedTeam \in teams(currentLeads)

\* The URLs fetchLeadsBrutos has requested so far, in order.
BrutosRequested(reqs) ==
    LET mine == SelectSeq(reqs, LAMBDA r : r.call = "brutos")
    IN  [i \in 1..Len(mine) |-> mine[i].url]

\* Whether the answer of a URL gave no lead: the fetch failed, the status
\* was not OK, the body was no JSON, or the list was empty.
GaveNothing(call) ==
    call.outcome \in Failures \/ (call.outcome = "ok" /\ extractListAll(call.body) = <<>>)

\* C29: fetchLeadsBrutos of /api/proxy-leads-all requests the candidate URLs
\* Lead, Leads, Portal strictly in this order, one at a time; a later URL is
\* requested only after the one before it failed, was not OK or gave an
\* empty list; the first non-empty list is returned and no further URL is
\* requested; if all three give nothing the result is the empty list.
C29_BrutosInOrder ==
    [][(endpoint = "proxy-leads-all" /\ pc' # "start") =>
          /\ BrutosRequested(requests') = SubSeq(BrutosUrls, 1, calls'["brutos"].attempt)
          /\ BrutosRequested(requests') # BrutosRequested(requests) =>
                \/ pc = "start"
                \/ /\ calls["brutos"].st = "pending" /\ calls'["brutos"].st = "pending"
                   /\ Len(BrutosRequested(requests')) = Len(BrutosRequested(requests)) + 1
                   /\ GaveNothing(calls'["brutos"])
          /\ calls'["brutos"].st = "done" =>
                IF Len(calls'["brutos"].result.list) > 0
                THEN /\ calls'["brutos"].outcome = "ok"
                     /\ calls'["brutos"].result.list = extractListAll(calls'["brutos"].body)
                ELSE /\ calls'["brutos"].attempt = Len(BrutosUrls)
                     /\ GaveNothing(calls'["brutos"])
          /\ calls["brutos"].st = "done" => calls'["brutos"] = calls["brutos"]]_vars

\* The first URL gave nothing and the second a list, which was returned
\* without a request of the third.
C29_Witness ==
    /\ endpoint = "proxy-leads-all"
    /\ calls["brutos"].st = "done"
    /\ calls["brutos"].attempt = 2
    /\ Len(calls["brutos"].result.list) > 0
    /\ BrutosRequested(requests) = SubSeq(BrutosUrls, 1, 2)

\* The sum of f over the set S.
RECURSIVE SumOver(_, _)
SumOver(f, S) ==
    IF S = {} THEN 0
    ELSE LET x == CHOOSE y \in S : TRUE
         IN  f[x] + SumOver(f, S \ {x})

C28_TeamStatsAccount ==
    teamOut["reports"].done =>
        LET leads == teamOut["reports"].leads
            stats == teamOut["reports"].stats
            rows == 1..Len(stats)
        IN  /\ SumOver([i \in rows |-> stats[i].total], rows) = Len(leads)
            /\ \A i \in rows :
                  /\ 0 <= stats[i].slasCritical /\ stats[i].slasCritical <= stats[i].total
                  /\ 0 <= stats[i].agendamentos /\ stats[i].agendamentos <= stats[i].total
            /\ \A k \in 1..Len(leads) :
                  Cardinality({i \in rows : stats[i].name = TeamOf(leads[k])}) = 1
            /\ \A i \in rows : stats[i].total >= 1
            /\ \A i \in rows : i < Len(stats) => stats[i].total >= stats[i + 1].total

====
